---- MODULE Spec2Model ----
(***************************************************************************)
(* Block-based incremental Markdown translation: the block parser, the     *)
(* block diff, the chunk planner, the translation session, the two-level   *)
(* cache and the translation passes of translator.ts.                      *)
(*                                                                         *)
(* Representation of strings.  A text (a JavaScript string) is modelled by *)
(* the sequence of its lines, i.e. by content.split(newline): a non-empty  *)
(* sequence of newline-free line strings.  The empty string is <<"">>.     *)
(* Array.join(newline) of texts is then the concatenation of their line    *)
(* sequences.  Lines are drawn from a fixed alphabet of concrete Markdown  *)
(* lines; the parser's regular expressions are tabulated on that alphabet. *)
(***************************************************************************)
EXTENDS Integers, Sequences, FiniteSets, TLC

VARIABLES
  arg,         \* input of the pure function under test (harness specifications)
  ret,         \* its result, a record; ret.op = "none" before it is applied
  session,     \* translationSession.state: <<>> for null, else <<state>>
  docCache,    \* translationCache.cache: content hash -> entry
  blockCache,  \* translationCache.blockCache: <<block hash, language>> -> entry
  now,         \* Date.now()
  enableCache, \* configuration markdownTranslate.enableCache
  pass,        \* the translation pass in flight or last finished: its
               \* arguments, its local variables, its position and its result
  currentState,              \* extension.ts currentState: <<>> for undefined
  currentCancellationSource, \* the task whose token it holds, 0 for undefined
  tasks,       \* the event handlers of extension.ts that are running, each
               \* with its position and the pass it runs
  documentText,           \* document.getText() of the editor's document
  autoTranslateThreshold, \* configuration markdownTranslate.autoTranslateThreshold
  lastChangedBlockCount   \* extension.ts lastChangedBlockCount

\* the variables of the document watchers: used by SpecWatch, at rest
\* elsewhere
watchvars == <<documentText, autoTranslateThreshold, lastChangedBlockCount>>

\* the variables of the extension: used by SpecEvents and SpecWatch, at rest
\* elsewhere
extvars == <<currentState, currentCancellationSource, tasks, watchvars>>

sysvars == <<session, docCache, blockCache, now, enableCache, pass, extvars>>

vars == <<arg, ret, session, docCache, blockCache, now, enableCache, pass, extvars>>

\* no handler is running and no document has been translated
ExtRest ==
  /\ currentState = <<>>
  /\ currentCancellationSource = 0
  /\ tasks = <<>>
  /\ documentText = <<>>
  /\ autoTranslateThreshold = 0
  /\ lastChangedBlockCount = 0

-----------------------------------------------------------------------------
(* Bounds *)

\* longest input text, in lines, of the parser harness
MaxLines == 4

\* longest old or new text, in lines, of the diff harness
MaxDiffLines == 6

\* the number of translation passes started in one run of the system
MaxPasses == 3

-----------------------------------------------------------------------------
(* Lines and the parser's line predicates *)

\* lines whose length is not the length of the token that stands for them
LongLines == {"# LongA", "# LongB", "# LongC", "LongText"}

LONG_LINE_LENGTH == 6000

\* line.length
LineLen(line) == IF line \in LongLines THEN LONG_LINE_LENGTH ELSE Len(line)

\* /^#{1,6}\s/
isHeading(line) ==
  line \in {"# A", "# B", "# C", "# D", "# a", "# b", "# c", "# d",
            "# LongA", "# LongB", "# LongC", "# Header"}

\* /^(\s{0,3})([-*_])\s*\2\s*\2(\s*\2)*\s*$/
isThematicBreak(line) == line \in {"---", "***"}

\* a fence of three or more back-ticks or tildes after at most three spaces
\* (a back-tick cannot be written in a string; "^" stands for it in the tokens)
FenceLines == {"^^^", "^^^^", "~~~", "^^^js"}

isCodeFenceStart(line) == line \in FenceLines

FenceChar(line) == IF line = "~~~" THEN "~" ELSE "^"

FenceLength(line) == IF line = "^^^^" THEN 4 ELSE 3

\* a line holding only minLength or more fence characters (and white space)
isCodeFenceEnd(line, fence, minLength) ==
  /\ line \in {"^^^", "^^^^", "~~~"}
  /\ FenceChar(line) = fence
  /\ FenceLength(line) >= minLength

\* /^(\s*)[-*+]\s/ or /^(\s*)\d+[.)]\s/
isListItem(line) == line \in {"- a", "- b", "1. c"}

\* /^\s{2,}/
isIndented(line) == line \in {"  x"}

\* the line is empty after trim()
isBlank(line) == line \in {""}

isListContinuation(line) == isBlank(line) \/ isIndented(line)

\* /^\s{0,3}>/
isBlockquote(line) == line \in {"> q"}

\* /^\s*\|/ or /\|.*\|/
isTableLine(line) == line \in {"|a|"}

\* /^\s*\|?\s*:?-+:?\s*(\|\s*:?-+:?\s*)+\|?\s*$/
isTableSeparator(line) == line \in {"-|-"}

isFrontMatterStart(line, lineIndex) == lineIndex = 0 /\ line \in {"---"}

isFrontMatterEnd(line) == line \in {"---", "..."}

isHtmlBlockStart(line) == line \in {"<div>"}

determineBlockType(line) ==
  IF isHeading(line) THEN "heading"
  ELSE IF isThematicBreak(line) THEN "thematic_break"
  ELSE IF isCodeFenceStart(line) THEN "code_block"
  ELSE IF isBlockquote(line) THEN "blockquote"
  ELSE IF isListItem(line) THEN "list"
  ELSE IF isTableLine(line) THEN "table"
  ELSE IF isHtmlBlockStart(line) THEN "html_block"
  ELSE IF isBlank(line) THEN "blank_lines"
  ELSE "paragraph"

-----------------------------------------------------------------------------
(* Block parser *)

\* the SHA-256 digest of the content: a digest that
\* is equal exactly for equal contents
generateHash(content) == [sha256 |-> content]

NoType == "undefined"

InitialParserState ==
  [ctx |-> [state |-> "normal", codeFence |-> "", codeFenceLength |-> 0,
            currentBlock |-> <<>>, blockStartLine |-> 0, currentType |-> NoType],
   blocks |-> <<>>]

finalizeBlock(st, endLine) ==
  IF Len(st.ctx.currentBlock) = 0 THEN st
  ELSE [ctx |-> [st.ctx EXCEPT !.currentBlock = <<>>, !.currentType = NoType],
        blocks |-> Append(st.blocks,
           [index |-> Len(st.blocks),
            type |-> IF st.ctx.currentType = NoType THEN "paragraph"
                     ELSE st.ctx.currentType,
            content |-> st.ctx.currentBlock,
            hash |-> generateHash(st.ctx.currentBlock),
            startLine |-> st.ctx.blockStartLine,
            endLine |-> endLine])]

\* a block start that keeps the start line of the block before
startBlock_KeepsStartLine(st, line, lineIndex, type) ==
  [st EXCEPT !.ctx.currentBlock = <<line>>,
             !.ctx.currentType = type]

startBlock(st, line, lineIndex, type) ==
  [st EXCEPT !.ctx.currentBlock = <<line>>,
             !.ctx.blockStartLine = lineIndex,
             !.ctx.currentType = type]

pushLine(st, line) ==
  [st EXCEPT !.ctx.currentBlock = Append(st.ctx.currentBlock, line)]

\* lines.slice(i + 1).find(non-blank): the lines after line i
\* (0-based) that are not blank
NonBlankAfter(lines, i) ==
  SelectSeq(SubSeq(lines, i + 2, Len(lines)), LAMBDA l : ~isBlank(l))

\* a line that either continues the current block of that type or closes
\* the current block and starts one
continueOrStart(st, line, i, type) ==
  IF st.ctx.currentType = type THEN pushLine(st, line)
  ELSE startBlock(finalizeBlock(st, i - 1), line, i, type)

\* mutant: the block that precedes a heading or a thematic break is not
\* closed before the new block is started
singleLineBlock_NoClose(st, line, i, type) ==
  finalizeBlock(startBlock(st, line, i, type), i)

\* a line that is always a block of its own
singleLineBlock(st, line, i, type) ==
  finalizeBlock(startBlock(finalizeBlock(st, i - 1), line, i, type), i)

\* the loop body in the 'normal' state, after the fence checks
parseNormalLine(lines, i, st) ==
  LET line == lines[i + 1]
      lineType == determineBlockType(line)
      cur == st.ctx.currentType
  IN
  IF lineType = "blank_lines" THEN
    IF cur = "blank_lines" THEN pushLine(st, line)
    ELSE IF cur = "list" THEN
      LET rest == NonBlankAfter(lines, i) IN
      IF Len(rest) > 0 /\ (isListItem(rest[1]) \/ isIndented(rest[1]))
      THEN pushLine(st, line)
      ELSE startBlock(finalizeBlock(st, i - 1), line, i, "blank_lines")
    ELSE startBlock(finalizeBlock(st, i - 1), line, i, "blank_lines")
  ELSE IF lineType = "heading" THEN singleLineBlock(st, line, i, "heading")
  ELSE IF lineType = "thematic_break" THEN
    singleLineBlock(st, line, i, "thematic_break")
  ELSE IF lineType = "blockquote" THEN continueOrStart(st, line, i, "blockquote")
  ELSE IF lineType = "list" \/ (cur = "list" /\ isListContinuation(line)) THEN
    continueOrStart(st, line, i, "list")
  ELSE IF lineType = "table"
          \/ (cur = "table" /\ (isTableLine(line) \/ isTableSeparator(line))) THEN
    continueOrStart(st, line, i, "table")
  ELSE continueOrStart(st, line, i, "paragraph")

\* the loop body of parseMarkdownToBlocks for line i (0-based)
parseLine(lines, i, st) ==
  LET line == lines[i + 1] IN
  IF st.ctx.state = "front_matter" THEN
    LET st1 == pushLine(st, line) IN
    IF isFrontMatterEnd(line) /\ Len(st1.ctx.currentBlock) > 1
    THEN finalizeBlock([st1 EXCEPT !.ctx.state = "normal"], i)
    ELSE st1
  ELSE IF st.ctx.state = "code_block" THEN
    LET st1 == pushLine(st, line) IN
    IF isCodeFenceEnd(line, st.ctx.codeFence, st.ctx.codeFenceLength)
    THEN finalizeBlock([st1 EXCEPT !.ctx.state = "normal"], i)
    ELSE st1
  ELSE IF i = 0 /\ isFrontMatterStart(line, i) THEN
    [st EXCEPT !.ctx.state = "front_matter",
               !.ctx.currentType = "front_matter",
               !.ctx.currentBlock = <<line>>,
               !.ctx.blockStartLine = i]
  ELSE IF isCodeFenceStart(line) THEN
    LET st1 == finalizeBlock(st, i - 1) IN
    startBlock([st1 EXCEPT !.ctx.state = "code_block",
                           !.ctx.codeFence = FenceChar(line),
                           !.ctx.codeFenceLength = FenceLength(line)],
               line, i, "code_block")
  ELSE parseNormalLine(lines, i, st)

RECURSIVE parseLoop(_, _, _)
parseLoop(lines, i, st) ==
  IF i >= Len(lines) THEN st
  ELSE parseLoop(lines, i + 1, parseLine(lines, i, st))

\* a parser that makes no block of the empty line after a final newline
parseMarkdownToBlocks_DropsFinalNewline(content) ==
  LET lines == IF Len(content) > 1 /\ content[Len(content)] = ""
               THEN SubSeq(content, 1, Len(content) - 1) ELSE content
  IN [blocks |-> finalizeBlock(parseLoop(lines, 0, InitialParserState),
                               Len(lines) - 1).blocks,
      documentHash |-> generateHash(content)]

\* parseMarkdownToBlocks(content): the blocks and the document hash; the
\* blocksByHash lookup is the operator blocksByHash below
parseMarkdownToBlocks(content) ==
  [blocks |-> finalizeBlock(parseLoop(content, 0, InitialParserState),
                            Len(content) - 1).blocks,
   documentHash |-> generateHash(content)]

\* document.blocksByHash.get(hash): the blocks with that hash, in document
\* order (the empty sequence stands for undefined)
blocksByHash(document, hash) ==
  SelectSeq(document.blocks, LAMBDA b : b.hash = hash)

\* texts.join(newline)
RECURSIVE joinNewline(_)
joinNewline(texts) ==
  IF Len(texts) = 0 THEN <<"">>
  ELSE IF Len(texts) = 1 THEN texts[1]
  ELSE texts[1] \o joinNewline(Tail(texts))

\* blocksToContent(blocks)
blocksToContent(blocks) ==
  joinNewline([k \in 1..Len(blocks) |-> blocks[k].content])

-----------------------------------------------------------------------------
(* Merge *)

\* the value of an absent optional index (translatedUpToBlockIndex?: number)
NoIndex == -1

\* translations.get(hash) !== undefined
hasEntry(translations, hash) == hash \in DOMAIN translations

\* a merge that always takes every block of the document
mergeTranslatedBlocks_IgnoresBound(document, translations, upToBlockIndex) ==
  joinNewline([k \in 1..Len(document.blocks) |->
        IF hasEntry(translations, document.blocks[k].hash)
        THEN translations[document.blocks[k].hash]
        ELSE document.blocks[k].content])

\* mergeTranslatedBlocks(document, translations, upToBlockIndex)
mergeTranslatedBlocks(document, translations, upToBlockIndex) ==
  LET n == Len(document.blocks)
      lastIndex == IF upToBlockIndex = NoIndex THEN n - 1 ELSE upToBlockIndex
      count == IF lastIndex + 1 < n THEN lastIndex + 1 ELSE n
  IN joinNewline([k \in 1..count |->
        IF hasEntry(translations, document.blocks[k].hash)
        THEN translations[document.blocks[k].hash]
        ELSE document.blocks[k].content])

-----------------------------------------------------------------------------
(* Block diff (TranslationSession.detectBlockChangesInternal) *)

\* the largest index distance at which two blocks of the same type are
\* paired as a modification
FUZZY_MATCH_DISTANCE == 3

NoBlock ==
  [index |-> NoIndex, type |-> NoType, content |-> <<>>,
   hash |-> generateHash(<<>>), startLine |-> NoIndex, endLine |-> NoIndex]

\* Math.abs(a - b)
abs(n) == IF n < 0 THEN 0 - n ELSE n

\* a search that never requires "distance <= 3"
bestMatch_AnyDistance(candidates, index, bounded) ==
  LET dist(j) == abs(candidates[j].index - index)
      ok == 1..Len(candidates)
  IN IF ok = {} THEN <<>>
     ELSE <<candidates[CHOOSE j \in ok :
               \A j2 \in ok : dist(j) < dist(j2) \/ (dist(j) = dist(j2) /\ j <= j2)]>>

\* The search loops of phases 1 and 2: among the candidate blocks (in list
\* order) the first one at the smallest distance from index, found with
\* "distance < bestDistance"; bounded says whether "distance <= 3" is
\* required too.  The empty sequence stands for bestMatch = null.
bestMatch(candidates, index, bounded) ==
  LET dist(j) == abs(candidates[j].index - index)
      ok == {j \in 1..Len(candidates) :
               ~bounded \/ dist(j) <= FUZZY_MATCH_DISTANCE}
  IN IF ok = {} THEN <<>>
     ELSE <<candidates[CHOOSE j \in ok :
               \A j2 \in ok : dist(j) < dist(j2) \/ (dist(j) = dist(j2) /\ j <= j2)]>>

\* a phase 1 that pairs a new block only with the old block at its own index
RECURSIVE matchByHash_SameIndexOnly(_, _, _, _)
matchByHash_SameIndexOnly(oldDocument, newDocument, k, acc) ==
  IF k > Len(newDocument.blocks) THEN acc
  ELSE
    LET newBlock == newDocument.blocks[k]
        candidates == SelectSeq(blocksByHash(oldDocument, newBlock.hash),
                                LAMBDA b : b.index = newBlock.index)
        best == bestMatch(candidates, newBlock.index, FALSE)
    IN matchByHash_SameIndexOnly(oldDocument, newDocument, k + 1,
         IF best = <<>> THEN acc
         ELSE [acc EXCEPT
                 !.matchedOldIndices = @ \cup {best[1].index},
                 !.matchedNewIndices = @ \cup {newBlock.index},
                 !.unchangedBlocks = Append(@, [oldIndex |-> best[1].index,
                                                newIndex |-> newBlock.index,
                                                block |-> newBlock])])

\* Phase 1, from new block k (1-based) on: hash matching
RECURSIVE matchByHash(_, _, _, _)
matchByHash(oldDocument, newDocument, k, acc) ==
  IF k > Len(newDocument.blocks) THEN acc
  ELSE
    LET newBlock == newDocument.blocks[k]
        candidates == SelectSeq(blocksByHash(oldDocument, newBlock.hash),
                                LAMBDA b : b.index \notin acc.matchedOldIndices)
        best == bestMatch(candidates, newBlock.index, FALSE)
    IN matchByHash(oldDocument, newDocument, k + 1,
         IF best = <<>> THEN acc
         ELSE [acc EXCEPT
                 !.matchedOldIndices = @ \cup {best[1].index},
                 !.matchedNewIndices = @ \cup {newBlock.index},
                 !.unchangedBlocks = Append(@, [oldIndex |-> best[1].index,
                                                newIndex |-> newBlock.index,
                                                block |-> newBlock])])

\* mutant: phase 2 does not skip the old blocks it has already paired
RECURSIVE matchByPosition_Rematch(_, _, _, _)
matchByPosition_Rematch(unmatchedOld, unmatchedNew, k, acc) ==
  IF k > Len(unmatchedNew) THEN acc
  ELSE
    LET newBlock == unmatchedNew[k]
        candidates == SelectSeq(unmatchedOld, LAMBDA b : b.type = newBlock.type)
        best == bestMatch(candidates, newBlock.index, TRUE)
    IN matchByPosition_Rematch(unmatchedOld, unmatchedNew, k + 1,
         IF best = <<>> THEN acc
         ELSE [acc EXCEPT
                 !.matchedOldIndices = @ \cup {best[1].index},
                 !.matchedNewIndices = @ \cup {newBlock.index},
                 !.changes = Append(@, [type |-> "modified",
                                        oldIndex |-> best[1].index,
                                        newIndex |-> newBlock.index,
                                        oldBlock |-> best[1],
                                        newBlock |-> newBlock])])

\* Phase 2, from unmatched new block k (1-based) on: matching by position
\* and type
RECURSIVE matchByPosition(_, _, _, _)
matchByPosition(unmatchedOld, unmatchedNew, k, acc) ==
  IF k > Len(unmatchedNew) THEN acc
  ELSE
    LET newBlock == unmatchedNew[k]
        candidates == SelectSeq(unmatchedOld,
                        LAMBDA b : b.index \notin acc.matchedOldIndices
                                   /\ b.type = newBlock.type)
        best == bestMatch(candidates, newBlock.index, TRUE)
    IN matchByPosition(unmatchedOld, unmatchedNew, k + 1,
         IF best = <<>> THEN acc
         ELSE [acc EXCEPT
                 !.matchedOldIndices = @ \cup {best[1].index},
                 !.matchedNewIndices = @ \cup {newBlock.index},
                 !.changes = Append(@, [type |-> "modified",
                                        oldIndex |-> best[1].index,
                                        newIndex |-> newBlock.index,
                                        oldBlock |-> best[1],
                                        newBlock |-> newBlock])])

\* a.newIndex ?? a.oldIndex ?? 0
changeSortKey(change) ==
  IF change.newIndex # NoIndex THEN change.newIndex
  ELSE IF change.oldIndex # NoIndex THEN change.oldIndex
  ELSE 0

\* changes.sort(...) by changeSortKey; Array.prototype.sort is stable
RECURSIVE sortChanges(_)
sortChanges(changes) ==
  IF Len(changes) <= 1 THEN changes
  ELSE
    LET rest == sortChanges(SubSeq(changes, 1, Len(changes) - 1))
        last == changes[Len(changes)]
        before == SelectSeq(rest, LAMBDA c : changeSortKey(c) <= changeSortKey(last))
        after == SelectSeq(rest, LAMBDA c : changeSortKey(c) > changeSortKey(last))
    IN before \o <<last>> \o after

\* the return value null of detectBlockChanges
NullDiff == [hasChanges |-> FALSE, changes |-> <<>>, unchangedBlocks |-> <<>>]

\* the changes of the diff before the final test for an empty change list
blockChanges(oldDocument, newDocument) ==
  LET p1 == matchByHash(oldDocument, newDocument, 1,
              [matchedOldIndices |-> {}, matchedNewIndices |-> {},
               unchangedBlocks |-> <<>>, changes |-> <<>>])
      unmatchedOld == SelectSeq(oldDocument.blocks,
                        LAMBDA b : b.index \notin p1.matchedOldIndices)
      unmatchedNew == SelectSeq(newDocument.blocks,
                        LAMBDA b : b.index \notin p1.matchedNewIndices)
      p2 == matchByPosition(unmatchedOld, unmatchedNew, 1, p1)
      removedBlocks == SelectSeq(oldDocument.blocks,
                         LAMBDA b : b.index \notin p2.matchedOldIndices)
      addedBlocks == SelectSeq(newDocument.blocks,
                       LAMBDA b : b.index \notin p2.matchedNewIndices)
      removed == [j \in 1..Len(removedBlocks) |->
                    [type |-> "removed", oldIndex |-> removedBlocks[j].index,
                     newIndex |-> NoIndex, oldBlock |-> removedBlocks[j],
                     newBlock |-> NoBlock]]
      added == [j \in 1..Len(addedBlocks) |->
                  [type |-> "added", oldIndex |-> NoIndex,
                   newIndex |-> addedBlocks[j].index, oldBlock |-> NoBlock,
                   newBlock |-> addedBlocks[j]]]
  IN [hasChanges |-> TRUE,
      changes |-> sortChanges(p2.changes \o removed \o added),
      unchangedBlocks |-> p2.unchangedBlocks]

\* detectBlockChangesInternal without its two returns of null
detectBlockChangesInternal_NeverNull(oldDocument, newContent) ==
  blockChanges(oldDocument, parseMarkdownToBlocks(newContent))

\* detectBlockChangesInternal(oldDocument, newContent)
detectBlockChangesInternal(oldDocument, newContent) ==
  LET newDocument == parseMarkdownToBlocks(newContent) IN
  IF oldDocument.documentHash = newDocument.documentHash THEN NullDiff
  ELSE LET d == blockChanges(oldDocument, newDocument) IN
       IF Len(d.changes) = 0 THEN NullDiff ELSE d

-----------------------------------------------------------------------------
(* Chunk planner and translation maps (translator.ts) *)

INTERNAL_MAX_CHUNK_SIZE == 10000

\* text.length of a text given by its lines
RECURSIVE textLength(_)
textLength(text) ==
  IF Len(text) = 0 THEN 0
  ELSE IF Len(text) = 1 THEN LineLen(text[1])
  ELSE LineLen(text[1]) + 1 + textLength(Tail(text))

\* the for loop of selectBlocksForChunk that admits a block whenever the
\* blocks before it are within the limit
RECURSIVE selectLoop_IgnoreBlockSize(_, _, _, _)
selectLoop_IgnoreBlockSize(blocks, i, chunkSize, acc) ==
  IF i >= Len(blocks) THEN acc
  ELSE
    LET block == blocks[i + 1]
        blockSize == textLength(block.content)
    IN IF Len(acc.blocksToTranslate) = 0 \/ acc.totalSize <= chunkSize
       THEN selectLoop_IgnoreBlockSize(blocks, i + 1, chunkSize,
              [blocksToTranslate |-> Append(acc.blocksToTranslate, block),
               totalSize |-> acc.totalSize + blockSize + 1,
               lastBlockIndex |-> i])
       ELSE acc

\* the for loop of selectBlocksForChunk without the separator counted after
\* each block
RECURSIVE selectLoop_NoSeparator(_, _, _, _)
selectLoop_NoSeparator(blocks, i, chunkSize, acc) ==
  IF i >= Len(blocks) THEN acc
  ELSE
    LET block == blocks[i + 1]
        blockSize == textLength(block.content)
    IN IF Len(acc.blocksToTranslate) = 0 \/ acc.totalSize + blockSize <= chunkSize
       THEN selectLoop_NoSeparator(blocks, i + 1, chunkSize,
              [blocksToTranslate |-> Append(acc.blocksToTranslate, block),
               totalSize |-> acc.totalSize + blockSize,
               lastBlockIndex |-> i])
       ELSE acc

\* the for loop of selectBlocksForChunk without "always include at least
\* one block"
RECURSIVE selectLoop_NoFirstBlock(_, _, _, _)
selectLoop_NoFirstBlock(blocks, i, chunkSize, acc) ==
  IF i >= Len(blocks) THEN acc
  ELSE
    LET block == blocks[i + 1]
        blockSize == textLength(block.content)
    IN IF acc.totalSize + blockSize <= chunkSize
       THEN selectLoop_NoFirstBlock(blocks, i + 1, chunkSize,
              [blocksToTranslate |-> Append(acc.blocksToTranslate, block),
               totalSize |-> acc.totalSize + blockSize + 1,
               lastBlockIndex |-> i])
       ELSE acc

\* the for loop of selectBlocksForChunk from block i (0-based) on
RECURSIVE selectLoop(_, _, _, _)
selectLoop(blocks, i, chunkSize, acc) ==
  IF i >= Len(blocks) THEN acc
  ELSE
    LET block == blocks[i + 1]
        blockSize == textLength(block.content)
    IN IF Len(acc.blocksToTranslate) = 0 \/ acc.totalSize + blockSize <= chunkSize
       THEN selectLoop(blocks, i + 1, chunkSize,
              [blocksToTranslate |-> Append(acc.blocksToTranslate, block),
               totalSize |-> acc.totalSize + blockSize + 1,
               lastBlockIndex |-> i])
       ELSE acc

\* selectBlocksForChunk(blocks, startIndex, chunkSize)
selectBlocksForChunk(blocks, startIndex, chunkSize) ==
  LET r == selectLoop(blocks, startIndex, chunkSize,
             [blocksToTranslate |-> <<>>, totalSize |-> 0,
              lastBlockIndex |-> startIndex - 1])
  IN [blocksToTranslate |-> r.blocksToTranslate, lastBlockIndex |-> r.lastBlockIndex]

\* the for loop of splitIntoInternalChunks that forgets the block a new
\* chunk is started for
RECURSIVE splitLoop_DropAtBoundary(_, _, _)
splitLoop_DropAtBoundary(blocks, k, acc) ==
  IF k > Len(blocks) THEN acc
  ELSE
    LET block == blocks[k]
        blockSize == textLength(block.content)
    IN IF Len(acc.currentChunk) = 0
          \/ acc.currentSize + blockSize <= INTERNAL_MAX_CHUNK_SIZE
       THEN splitLoop_DropAtBoundary(blocks, k + 1,
              [acc EXCEPT !.currentChunk = Append(@, block),
                          !.currentSize = @ + blockSize + 1])
       ELSE splitLoop_DropAtBoundary(blocks, k + 1,
              [chunks |-> Append(acc.chunks, acc.currentChunk),
               currentChunk |-> <<>>,
               currentSize |-> 0])

\* the for loop of splitIntoInternalChunks from block k (1-based) on
RECURSIVE splitLoop(_, _, _)
splitLoop(blocks, k, acc) ==
  IF k > Len(blocks) THEN acc
  ELSE
    LET block == blocks[k]
        blockSize == textLength(block.content)
    IN IF Len(acc.currentChunk) = 0
          \/ acc.currentSize + blockSize <= INTERNAL_MAX_CHUNK_SIZE
       THEN splitLoop(blocks, k + 1,
              [acc EXCEPT !.currentChunk = Append(@, block),
                          !.currentSize = @ + blockSize + 1])
       ELSE splitLoop(blocks, k + 1,
              [chunks |-> Append(acc.chunks, acc.currentChunk),
               currentChunk |-> <<block>>,
               currentSize |-> blockSize + 1])

\* splitIntoInternalChunks(blocks)
splitIntoInternalChunks(blocks) ==
  LET r == splitLoop(blocks, 1,
             [chunks |-> <<>>, currentChunk |-> <<>>, currentSize |-> 0])
  IN IF Len(r.currentChunk) > 0 THEN Append(r.chunks, r.currentChunk) ELSE r.chunks

\* map.set(key, value) on a Map given as a function
mapSet(map, key, value) ==
  [x \in (DOMAIN map) \cup {key} |-> IF x = key THEN value ELSE map[x]]

\* new Map([...a, ...b]): the entries of a, overridden and extended by b
mapMerge(a, b) ==
  [x \in (DOMAIN a) \cup (DOMAIN b) |-> IF x \in DOMAIN b THEN b[x] ELSE a[x]]

EmptyMap == [x \in {} |-> <<>>]

\* the position-based branch of buildBlockTranslationMapForRange
RECURSIVE mapByPosition(_, _, _, _)
mapByPosition(sourceBlocks, translationBlocks, k, map) ==
  IF k > Len(sourceBlocks) THEN map
  ELSE mapByPosition(sourceBlocks, translationBlocks, k + 1,
         mapSet(map, sourceBlocks[k].hash, translationBlocks[k].content))

\* while (translationIndex < length && type differs) translationIndex++
RECURSIVE skipToType(_, _, _)
skipToType(translationBlocks, translationIndex, type) ==
  IF translationIndex < Len(translationBlocks)
     /\ translationBlocks[translationIndex + 1].type # type
  THEN skipToType(translationBlocks, translationIndex + 1, type)
  ELSE translationIndex

\* the type-based branch of buildBlockTranslationMapForRange
RECURSIVE mapByType(_, _, _, _, _)
mapByType(sourceBlocks, translationBlocks, k, translationIndex, map) ==
  IF k > Len(sourceBlocks) THEN map
  ELSE
    LET sourceBlock == sourceBlocks[k]
        t == skipToType(translationBlocks, translationIndex, sourceBlock.type)
    IN IF t < Len(translationBlocks)
       THEN mapByType(sourceBlocks, translationBlocks, k + 1, t + 1,
              mapSet(map, sourceBlock.hash, translationBlocks[t + 1].content))
       ELSE mapByType(sourceBlocks, translationBlocks, k + 1, t,
              mapSet(map, sourceBlock.hash, sourceBlock.content))

\* buildBlockTranslationMapForRange(sourceBlocks, translation)
buildBlockTranslationMapForRange(sourceBlocks, translation) ==
  IF Len(sourceBlocks) = Len(translation.blocks)
  THEN mapByPosition(sourceBlocks, translation.blocks, 1, EmptyMap)
  ELSE mapByType(sourceBlocks, translation.blocks, 1, 0, EmptyMap)

\* buildBlockTranslationMap(source, translation)
buildBlockTranslationMap(source, translation) ==
  buildBlockTranslationMapForRange(source.blocks, translation)

\* Math.max, Math.min
max(a, b) == IF a >= b THEN a ELSE b

min(a, b) == IF a <= b THEN a ELSE b

\* Math.max(...indices) of a non-empty set
maxOf(indices) == CHOOSE n \in indices : \A n2 \in indices : n >= n2

\* the adjustment loop over blockDiff.changes from change k (1-based) on
RECURSIVE adjustBoundary(_, _, _, _)
adjustBoundary(changes, k, oldTranslatedUpToBlockIndex, newTranslatedUpToBlockIndex) ==
  IF k > Len(changes) THEN newTranslatedUpToBlockIndex
  ELSE
    LET change == changes[k] IN
    adjustBoundary(changes, k + 1, oldTranslatedUpToBlockIndex,
      IF change.newIndex # NoIndex /\ change.oldIndex # NoIndex
      THEN IF change.type = "added"
              /\ change.newIndex <= newTranslatedUpToBlockIndex
           THEN max(newTranslatedUpToBlockIndex, change.newIndex)
           ELSE IF change.type = "modified"
                   /\ change.oldIndex <= oldTranslatedUpToBlockIndex
           THEN max(newTranslatedUpToBlockIndex, change.newIndex)
           ELSE newTranslatedUpToBlockIndex
      ELSE newTranslatedUpToBlockIndex)

\* a remap that takes the highest unchanged block and skips the adjustment
\* for added and modified blocks
remapBoundary_SkipsAdjustment(blockDiff, oldTranslatedUpToBlockIndex, newBlockCount) ==
  IF oldTranslatedUpToBlockIndex = NoIndex THEN NoIndex
  ELSE
    LET unchangedAfterBoundary ==
          SelectSeq(blockDiff.unchangedBlocks,
                    LAMBDA ub : ub.oldIndex <= oldTranslatedUpToBlockIndex)
    IN IF Len(unchangedAfterBoundary) > 0
       THEN maxOf({unchangedAfterBoundary[k].newIndex :
                     k \in 1..Len(unchangedAfterBoundary)})
       ELSE min(oldTranslatedUpToBlockIndex, newBlockCount - 1)

\* translateBlocksIncremental: the new translatedUpToBlockIndex computed
\* from the old one and the diff
remapBoundary(blockDiff, oldTranslatedUpToBlockIndex, newBlockCount) ==
  IF oldTranslatedUpToBlockIndex = NoIndex THEN NoIndex
  ELSE
    LET unchangedAfterBoundary ==
          SelectSeq(blockDiff.unchangedBlocks,
                    LAMBDA ub : ub.oldIndex <= oldTranslatedUpToBlockIndex)
        modifiedInRange ==
          {k \in 1..Len(blockDiff.changes) :
             /\ blockDiff.changes[k].type = "modified"
             /\ blockDiff.changes[k].oldIndex # NoIndex
             /\ blockDiff.changes[k].newIndex # NoIndex
             /\ blockDiff.changes[k].oldIndex <= oldTranslatedUpToBlockIndex}
    IN IF Len(unchangedAfterBoundary) > 0
       THEN adjustBoundary(blockDiff.changes, 1, oldTranslatedUpToBlockIndex,
              maxOf({unchangedAfterBoundary[k].newIndex :
                       k \in 1..Len(unchangedAfterBoundary)}))
       ELSE IF modifiedInRange # {}
       THEN maxOf({blockDiff.changes[k].newIndex : k \in modifiedInRange})
       ELSE min(oldTranslatedUpToBlockIndex, newBlockCount - 1)

-----------------------------------------------------------------------------
(* The session (session.ts) and the cache (cache.ts) *)

\* an absent string
NoText == <<>>

\* an absent parsedDocument
NoDocument == [blocks |-> <<>>, documentHash |-> generateHash(NoText)]

\* no language model (getModel returned null)
NoModel == "none"

\* a conversation turn is kept as its role; the turns of n answered requests
\* are n pairs of the prompt and its answer
RECURSIVE turns(_)
turns(n) == IF n <= 0 THEN <<>> ELSE turns(n - 1) \o <<"user", "assistant">>

\* translationSession.initSession(...): the new state
initSession(originalContent, translatedContent, messages, model, parsedDocument, blockTranslations, translatedUpToBlockIndex) ==
  <<[originalContent |-> originalContent,
     translatedContent |-> translatedContent,
     messages |-> messages,
     model |-> model,
     parsedDocument |-> parsedDocument,
     blockTranslations |-> blockTranslations,
     translatedUpToBlockIndex |-> translatedUpToBlockIndex]>>

\* an update that replaces the stored block translations by the new batch
updateSession_ReplacesMap(s, originalContent, translatedContent, newMessages, parsedDocument, blockTranslations, translatedUpToBlockIndex) ==
  IF s = <<>> THEN s
  ELSE <<[s[1] EXCEPT
            !.originalContent = originalContent,
            !.translatedContent = translatedContent,
            !.messages = @ \o newMessages,
            !.parsedDocument =
               IF parsedDocument # NoDocument THEN parsedDocument ELSE @,
            !.blockTranslations = blockTranslations,
            !.translatedUpToBlockIndex =
               IF translatedUpToBlockIndex # NoIndex
               THEN translatedUpToBlockIndex ELSE @]>>

\* translationSession.updateSession(...) applied to the state s
updateSession(s, originalContent, translatedContent, newMessages, parsedDocument, blockTranslations, translatedUpToBlockIndex) ==
  IF s = <<>> THEN s
  ELSE <<[s[1] EXCEPT
            !.originalContent = originalContent,
            !.translatedContent = translatedContent,
            !.messages = @ \o newMessages,
            !.parsedDocument =
               IF parsedDocument # NoDocument THEN parsedDocument ELSE @,
            !.blockTranslations = mapMerge(@, blockTranslations),
            !.translatedUpToBlockIndex =
               IF translatedUpToBlockIndex # NoIndex
               THEN translatedUpToBlockIndex ELSE @]>>

\* translationSession.clearSession()
clearSession == <<>>

\* translationSession.detectBlockChanges(newContent) on the state s: the diff
\* (null when there is no session) and the state, whose parsedDocument is
\* filled in when it was absent
detectBlockChanges(s, newContent) ==
  IF s = <<>> THEN [diff |-> NullDiff, session |-> s]
  ELSE IF s[1].parsedDocument = NoDocument
  THEN LET parsed == parseMarkdownToBlocks(s[1].originalContent) IN
       [diff |-> detectBlockChangesInternal(parsed, newContent),
        session |-> <<[s[1] EXCEPT !.parsedDocument = parsed]>>]
  ELSE [diff |-> detectBlockChangesInternal(s[1].parsedDocument, newContent),
        session |-> s]

\* maxAge: 24 hours in milliseconds
MAX_AGE == 86400000

\* the truthiness of a looked-up string: neither undefined nor empty
truthy(lookup) == lookup # <<>> /\ lookup[1] # <<"">>

\* map.delete(key)
mapDelete(map, key) == [x \in (DOMAIN map) \ {key} |-> map[x]]

\* a lookup that already treats an entry of age maxAge as expired
cacheGet_ExpiresAtMaxAge(table, key, time) ==
  IF key \notin DOMAIN table THEN [value |-> <<>>, table |-> table]
  ELSE IF time - table[key].timestamp >= MAX_AGE
  THEN [value |-> <<>>, table |-> mapDelete(table, key)]
  ELSE [value |-> <<table[key].translation>>, table |-> table]

\* TranslationCache.get and getBlock on one table: the value found (<<>> for
\* undefined, else <<translation>>) and the table after the lazy eviction
cacheGet(table, key, time) ==
  IF key \notin DOMAIN table THEN [value |-> <<>>, table |-> table]
  ELSE IF time - table[key].timestamp > MAX_AGE
  THEN [value |-> <<>>, table |-> mapDelete(table, key)]
  ELSE [value |-> <<table[key].translation>>, table |-> table]

\* TranslationCache.set and setBlock on one table
cacheSet(table, key, translation, time) ==
  mapSet(table, key, [translation |-> translation, timestamp |-> time])

\* TranslationCache.getBlocks(sourceHashes, targetLanguage) from hash k on
RECURSIVE getBlocks(_, _, _, _, _, _)
getBlocks(table, sourceHashes, targetLanguage, time, k, result) ==
  IF k > Len(sourceHashes) THEN [result |-> result, table |-> table]
  ELSE
    LET g == cacheGet(table, <<sourceHashes[k], targetLanguage>>, time) IN
    getBlocks(g.table, sourceHashes, targetLanguage, time, k + 1,
              IF g.value # <<>> THEN mapSet(result, sourceHashes[k], g.value[1])
              ELSE result)

\* TranslationCache.setBlocks(translations, targetLanguage)
setBlocks(table, translations, targetLanguage, time) ==
  [key \in (DOMAIN table) \cup {<<h, targetLanguage>> : h \in DOMAIN translations} |->
     IF key[2] = targetLanguage /\ key[1] \in DOMAIN translations
     THEN [translation |-> translations[key[1]], timestamp |-> time]
     ELSE table[key]]

-----------------------------------------------------------------------------
(* The language model *)

\* what the model writes for one line of Markdown
TrLine(line) ==
  CASE line = "# A" -> "# a"
    [] line = "# B" -> "# b"
    [] line = "# C" -> "# c"
    [] line = "# D" -> "# d"
    [] line = "# LongA" -> "# a"
    [] line = "# LongB" -> "# b"
    [] line = "# LongC" -> "# c"
    [] line = "Hello" -> "Hola"
    [] OTHER -> line

\* The text a request for contentToTranslate is answered with.  The model is
\* an external service: it may translate line by line ("faithful") or answer
\* with a single paragraph ("collapsed").
ResponseStyles == {"faithful", "collapsed"}

respond(contentToTranslate, style) ==
  IF style = "faithful"
  THEN [k \in 1..Len(contentToTranslate) |-> TrLine(contentToTranslate[k])]
  ELSE <<"Hola">>

\* The response arrives in fragments, one line per fragment: the text
\* accumulated from the first n fragments
fragmentsText(response, n) ==
  IF n = 0 THEN <<"">> ELSE SubSeq(response, 1, n)

\* a += b for a text a that is empty or is followed by a newline before b
appendText(a, b) == IF a = <<"">> THEN b ELSE a \o b

-----------------------------------------------------------------------------
(* A translation pass: its local state and its return value *)

\* the TranslationResult of a pass that has not returned yet
Pending ==
  [success |-> FALSE, error |-> "pending", translation |-> NoText,
   fromCache |-> FALSE, translatedUpToBlockIndex |-> NoIndex,
   hasMoreBlocks |-> FALSE]

\* { success: false, error }
failure(error) == [Pending EXCEPT !.error = error]

\* { success: true, translation, fromCache, translatedUpToBlockIndex, hasMoreBlocks }
success(translation, fromCache, translatedUpToBlockIndex, hasMoreBlocks) ==
  [success |-> TRUE, error |-> "none", translation |-> translation,
   fromCache |-> fromCache,
   translatedUpToBlockIndex |-> translatedUpToBlockIndex,
   hasMoreBlocks |-> hasMoreBlocks]

\* No pass has been started.  The fields of a pass: kind (which function),
\* pc (idle, getModel: awaiting getModel; stream: awaiting the response of a
\* request or its next fragment; done: returned), cancelled (the token), the
\* arguments, the local variables of the function, its result, and the
\* history fields: requests (the blocks of every sendRequest so far),
\* completed (how many of them were answered to the end), observedAt (the number of requests sent when the function first read the
\* token as cancelled, NoIndex before), number (how many passes were started).
NoPass ==
  [kind |-> "none", pc |-> "idle", cancelled |-> FALSE,
   content |-> NoText, targetLanguage |-> "", chunkSize |-> 0,
   sessionAtStart |-> <<>>, model |-> NoModel, document |-> NoDocument,
   startIndex |-> 0, blockDiff |-> NullDiff, boundary |-> NoIndex,
   available |-> EmptyMap, chunks |-> <<>>, chunkIndex |-> 0,
   lastBlockIndex |-> NoIndex, hasMoreBlocks |-> FALSE,
   response |-> NoText, received |-> 0, translation |-> <<"">>,
   newBlockTranslations |-> EmptyMap, lastTranslatedBlockIndex |-> -1,
   result |-> Pending, requests |-> <<>>, completed |-> 0,
   observedAt |-> NoIndex, number |-> 0]

\* the state the pass functions read and write
Machine ==
  [pass |-> pass, session |-> session, docCache |-> docCache,
   blockCache |-> blockCache]

\* The function returns result; its loop variables are gone, its arguments,
\* its plan and the history fields are kept for the record.
return(m, result) ==
  [m EXCEPT !.pass = [@ EXCEPT !.pc = "done", !.result = result,
                               !.cancelled = NoPass.cancelled,
                               !.model = NoPass.model,
                               !.document = NoPass.document,
                               !.lastBlockIndex = NoPass.lastBlockIndex,
                               !.hasMoreBlocks = NoPass.hasMoreBlocks,
                               !.chunks = NoPass.chunks,
                               !.chunkIndex = NoPass.chunkIndex,
                               !.response = NoPass.response,
                               !.received = NoPass.received,
                               !.translation = NoPass.translation,
                               !.newBlockTranslations = NoPass.newBlockTranslations,
                               !.lastTranslatedBlockIndex =
                                  NoPass.lastTranslatedBlockIndex]]

\* token.isCancellationRequested was read as true
observe(m) ==
  [m EXCEPT !.pass.observedAt = IF @ = NoIndex THEN Len(m.pass.requests) ELSE @]

\* await model.sendRequest(...) for the given blocks
sendRequest(m, blocks, style) ==
  [m EXCEPT !.pass.pc = "stream",
            !.pass.requests = Append(@, blocks),
            !.pass.response = respond(blocksToContent(blocks), style),
            !.pass.received = 0]

\* internalChunks.slice(0, chunkIndex).reduce((sum, c) => sum + c.length, 0)
RECURSIVE blocksBeforeChunk(_, _)
blocksBeforeChunk(internalChunks, chunkIndex) ==
  IF chunkIndex = 0 THEN 0
  ELSE blocksBeforeChunk(internalChunks, chunkIndex - 1)
       + Len(internalChunks[chunkIndex])

\* The statements after the fragment loop of a chunked pass: parse the text
\* received for the chunk, map it onto the blocks of the chunk and merge the
\* map into the translations of the pass (lastTranslatedBlockIndex is kept
\* by translateContentBlockBased only).
chunkReceived(p, chunkTranslation) ==
  LET internalBlocks == p.chunks[p.chunkIndex + 1]
      parsedChunkTranslation == parseMarkdownToBlocks(chunkTranslation)
      chunkBlockTranslations ==
        buildBlockTranslationMapForRange(internalBlocks, parsedChunkTranslation)
  IN [p EXCEPT
        !.translation = appendText(@, chunkTranslation),
        !.newBlockTranslations = mapMerge(@, chunkBlockTranslations),
        !.lastTranslatedBlockIndex =
           IF p.kind = "initial"
           THEN blocksBeforeChunk(p.chunks, p.chunkIndex)
                + min(Len(parsedChunkTranslation.blocks), Len(internalBlocks)) - 1
           ELSE @]

-----------------------------------------------------------------------------
(* translateContentBlockBased: the initial pass *)

\* from the call to "await getModel", or to the return on a cache hit
startBlockBased(m, content, targetLanguage, chunkSize, bypassCache) ==
  LET parsedDocument == parseMarkdownToBlocks(content)
      p == [NoPass EXCEPT !.number = m.pass.number + 1, !.kind = "initial", !.content = content,
                          !.targetLanguage = targetLanguage,
                          !.chunkSize = chunkSize,
                          !.document = parsedDocument]
      g == cacheGet(m.docCache, generateHash(content), now)
  IN IF enableCache /\ ~bypassCache
     THEN IF truthy(g.value)
          THEN return([m EXCEPT !.docCache = g.table, !.pass = p],
                      success(g.value[1], TRUE, Len(parsedDocument.blocks) - 1, FALSE))
          ELSE [m EXCEPT !.docCache = g.table, !.pass = [p EXCEPT !.pc = "getModel"]]
     ELSE [m EXCEPT !.pass = [p EXCEPT !.pc = "getModel"]]

\* the cancellation path: save the partial session and return the failure
blockBasedCancelled(m) ==
  LET p == m.pass
      upTo == IF p.lastTranslatedBlockIndex >= 0
              THEN p.lastTranslatedBlockIndex ELSE NoIndex
  IN return([m EXCEPT !.session =
                initSession(p.content, p.translation, turns(p.completed),
                            p.model, p.document, p.newBlockTranslations, upTo)],
            [failure("cancelled") EXCEPT !.translatedUpToBlockIndex = upTo,
                                         !.hasMoreBlocks = TRUE])

\* after the chunk loop ran to its end: cache, start the session, return
blockBasedCommit(m) ==
  LET p == m.pass
      blocks == IF enableCache
                THEN setBlocks(m.blockCache, p.newBlockTranslations,
                               p.targetLanguage, now)
                ELSE m.blockCache
      docs == IF enableCache /\ ~p.hasMoreBlocks
              THEN cacheSet(m.docCache, generateHash(p.content), p.translation, now)
              ELSE m.docCache
  IN return([m EXCEPT !.blockCache = blocks, !.docCache = docs,
                      !.session =
                        initSession(p.content, p.translation,
                                    turns(p.completed), p.model, p.document,
                                    p.newBlockTranslations, p.lastBlockIndex)],
            success(p.translation, FALSE, p.lastBlockIndex, p.hasMoreBlocks))

\* the head of the chunk loop, up to the next "await model.sendRequest"
blockBasedChunkLoop(m, style) ==
  IF m.pass.chunkIndex >= Len(m.pass.chunks) THEN blockBasedCommit(m)
  ELSE IF m.pass.cancelled THEN blockBasedCancelled(observe(m))
  ELSE sendRequest(m, m.pass.chunks[m.pass.chunkIndex + 1], style)

\* getModel has returned model: plan the chunks and enter the chunk loop
blockBasedPlan(m, model, style) ==
  IF model = NoModel THEN return(m, failure("no-model"))
  ELSE
    LET p == m.pass
        sel == selectBlocksForChunk(p.document.blocks, 0, p.chunkSize)
    IN blockBasedChunkLoop(
         [m EXCEPT !.pass =
            [p EXCEPT !.model = model,
                      !.lastBlockIndex = sel.lastBlockIndex,
                      !.hasMoreBlocks =
                         sel.lastBlockIndex < Len(p.document.blocks) - 1,
                      !.chunks = splitIntoInternalChunks(sel.blocksToTranslate)]],
         style)

\* a fragment of the response arrives
blockBasedFragment(m) ==
  IF m.pass.cancelled
  THEN LET o == observe(m) IN
       blockBasedCancelled(
         [o EXCEPT !.pass =
            chunkReceived(o.pass, fragmentsText(o.pass.response, o.pass.received))])
  ELSE [m EXCEPT !.pass.received = @ + 1]

\* the response ends
blockBasedStreamEnd(m, style) ==
  blockBasedChunkLoop(
    [m EXCEPT !.pass = [chunkReceived(m.pass, m.pass.response)
                          EXCEPT !.chunkIndex = @ + 1, !.completed = @ + 1]],
    style)

\* the catch clause
blockBasedCatch(m) ==
  return([m EXCEPT !.session = clearSession], failure("failed"))

-----------------------------------------------------------------------------
(* translateNextBlockChunk and translateAllRemainingBlocks: continue passes *)

\* a continue pass that starts over from the first block
continueStartIndex_Zero(translatedUpToBlockIndex) == 0

\* (translatedUpToBlockIndex ?? -1) + 1
continueStartIndex(translatedUpToBlockIndex) ==
  IF translatedUpToBlockIndex = NoIndex THEN 0 ELSE translatedUpToBlockIndex + 1

\* translateNextBlockChunk after its chunk loop: merge, cache, update the
\* session, return
nextChunkCommit(m) ==
  LET p == m.pass
      session0 == p.sessionAtStart[1]
      allBlockTranslations ==
        mapMerge(session0.blockTranslations, p.newBlockTranslations)
      fullTranslation ==
        mergeTranslatedBlocks(p.document, allBlockTranslations, p.lastBlockIndex)
      blocks == IF enableCache
                THEN setBlocks(m.blockCache, p.newBlockTranslations,
                               p.targetLanguage, now)
                ELSE m.blockCache
      docs == IF enableCache /\ ~p.hasMoreBlocks
              THEN cacheSet(m.docCache, generateHash(session0.originalContent),
                            fullTranslation, now)
              ELSE m.docCache
  IN return([m EXCEPT !.blockCache = blocks, !.docCache = docs,
                      !.session =
                        updateSession(m.session, session0.originalContent,
                                      fullTranslation, turns(p.completed),
                                      p.document,
                                      p.newBlockTranslations, p.lastBlockIndex)],
            success(fullTranslation, FALSE, p.lastBlockIndex, p.hasMoreBlocks))

\* translateAllRemainingBlocks after its chunk loop
allRemainingCommit(m) ==
  LET p == m.pass
      session0 == p.sessionAtStart[1]
      allBlockTranslations ==
        mapMerge(session0.blockTranslations, p.newBlockTranslations)
      fullTranslation ==
        mergeTranslatedBlocks(p.document, allBlockTranslations, NoIndex)
      blocks == IF enableCache
                THEN setBlocks(m.blockCache, p.newBlockTranslations,
                               p.targetLanguage, now)
                ELSE m.blockCache
      docs == IF enableCache
              THEN cacheSet(m.docCache, generateHash(session0.originalContent),
                            fullTranslation, now)
              ELSE m.docCache
  IN return([m EXCEPT !.blockCache = blocks, !.docCache = docs,
                      !.session =
                        updateSession(m.session, session0.originalContent,
                                      fullTranslation, turns(p.completed),
                                      p.document,
                                      p.newBlockTranslations,
                                      Len(p.document.blocks) - 1)],
            success(fullTranslation, FALSE, Len(p.document.blocks) - 1, FALSE))

\* the head of the chunk loop of a continue pass
continueChunkLoop(m, style) ==
  IF m.pass.chunkIndex >= Len(m.pass.chunks)
  THEN IF m.pass.kind = "next" THEN nextChunkCommit(m) ELSE allRemainingCommit(m)
  ELSE IF m.pass.cancelled THEN return(observe(m), failure("cancelled"))
  ELSE sendRequest(m, m.pass.chunks[m.pass.chunkIndex + 1], style)

\* the guard of both continue passes: !session || !session.model ||
\* !session.parsedDocument
noContinuableSession(s) ==
  s = <<>> \/ s[1].model = NoModel \/ s[1].parsedDocument = NoDocument

\* a translateNextBlockChunk that empties the cache tables before it
\* reports the missing session
startNextBlockChunk_DropsCache(m, targetLanguage, chunkSize, style) ==
  return([m EXCEPT !.docCache = EmptyMap, !.blockCache = EmptyMap,
                   !.pass = [NoPass EXCEPT !.number = m.pass.number + 1,
                                           !.kind = "next",
                                           !.targetLanguage = targetLanguage,
                                           !.chunkSize = chunkSize,
                                           !.sessionAtStart = m.session]],
         failure("no-session"))

\* translateNextBlockChunk from the call to its first await or its return
startNextBlockChunk(m, targetLanguage, chunkSize, style) ==
  LET s == m.session
      p == [NoPass EXCEPT !.number = m.pass.number + 1, !.kind = "next", !.targetLanguage = targetLanguage,
                          !.chunkSize = chunkSize, !.sessionAtStart = s]
  IN IF noContinuableSession(s)
     THEN return([m EXCEPT !.pass = p], failure("no-session"))
     ELSE
       LET parsedDocument == s[1].parsedDocument
           startIndex == continueStartIndex(s[1].translatedUpToBlockIndex)
           sel == selectBlocksForChunk(parsedDocument.blocks, startIndex, chunkSize)
           p1 == [p EXCEPT !.content = s[1].originalContent,
                           !.model = s[1].model,
                           !.document = parsedDocument,
                           !.startIndex = startIndex]
       IN IF startIndex >= Len(parsedDocument.blocks)
          THEN return([m EXCEPT !.pass = p1],
                      success(mergeTranslatedBlocks(parsedDocument,
                                s[1].blockTranslations, NoIndex),
                              TRUE, Len(parsedDocument.blocks) - 1, FALSE))
          ELSE continueChunkLoop(
                 [m EXCEPT !.pass =
                    [p1 EXCEPT !.lastBlockIndex = sel.lastBlockIndex,
                               !.hasMoreBlocks =
                                  sel.lastBlockIndex < Len(parsedDocument.blocks) - 1,
                               !.chunks =
                                  splitIntoInternalChunks(sel.blocksToTranslate)]],
                 style)

\* translateAllRemainingBlocks from the call to its first await or its return
startAllRemainingBlocks(m, targetLanguage, style) ==
  LET s == m.session
      p == [NoPass EXCEPT !.number = m.pass.number + 1, !.kind = "all", !.targetLanguage = targetLanguage,
                          !.sessionAtStart = s]
  IN IF noContinuableSession(s)
     THEN return([m EXCEPT !.pass = p], failure("no-session"))
     ELSE
       LET parsedDocument == s[1].parsedDocument
           startIndex == continueStartIndex(s[1].translatedUpToBlockIndex)
           remainingBlocks == SubSeq(parsedDocument.blocks, startIndex + 1,
                                     Len(parsedDocument.blocks))
           p1 == [p EXCEPT !.content = s[1].originalContent,
                           !.model = s[1].model,
                           !.document = parsedDocument,
                           !.startIndex = startIndex]
       IN IF startIndex >= Len(parsedDocument.blocks)
          THEN return([m EXCEPT !.pass = p1],
                      success(mergeTranslatedBlocks(parsedDocument,
                                s[1].blockTranslations, NoIndex),
                              TRUE, Len(parsedDocument.blocks) - 1, FALSE))
          ELSE continueChunkLoop(
                 [m EXCEPT !.pass =
                    [p1 EXCEPT !.lastBlockIndex = Len(parsedDocument.blocks) - 1,
                               !.chunks = splitIntoInternalChunks(remainingBlocks)]],
                 style)

\* a fragment of the response arrives in a continue pass
continueFragment(m) ==
  IF m.pass.cancelled THEN return(observe(m), failure("cancelled"))
  ELSE [m EXCEPT !.pass.received = @ + 1]

\* the response ends in a continue pass
continueStreamEnd(m, style) ==
  continueChunkLoop(
    [m EXCEPT !.pass = [chunkReceived(m.pass, m.pass.response)
                          EXCEPT !.chunkIndex = @ + 1, !.completed = @ + 1]],
    style)

\* a catch clause that drops the session, as the initial pass does
continueCatch_ClearsSession(m) ==
  return([m EXCEPT !.session = clearSession], failure("failed"))

\* the catch clause of a continue pass
continueCatch(m) == return(m, failure("failed"))

-----------------------------------------------------------------------------
(* translateBlocksIncremental: the incremental update *)

\* blocksToTranslate without the test for an available translation
blocksToTranslate_IgnoreAvailable(blockDiff, newTranslatedUpToBlockIndex, availableTranslations) ==
  LET needed == SelectSeq(blockDiff.changes, LAMBDA change :
        /\ change.type \in {"added", "modified"}
        /\ \/ newTranslatedUpToBlockIndex = NoIndex
           \/ change.newBlock.index <= newTranslatedUpToBlockIndex)
  IN [k \in 1..Len(needed) |-> needed[k].newBlock]

\* the blocks that need translation: the new blocks of the added and modified
\* changes inside the translated range that have no available translation
blocksToTranslate(blockDiff, newTranslatedUpToBlockIndex, availableTranslations) ==
  LET needed == SelectSeq(blockDiff.changes, LAMBDA change :
        /\ change.type \in {"added", "modified"}
        /\ \/ newTranslatedUpToBlockIndex = NoIndex
           \/ change.newBlock.index <= newTranslatedUpToBlockIndex
        /\ ~hasEntry(availableTranslations, change.newBlock.hash))
  IN [k \in 1..Len(needed) |-> needed[k].newBlock]

\* [...blocksToTranslate].sort((a, b) => a.index - b.index), a stable sort
RECURSIVE sortByIndex(_)
sortByIndex(blocks) ==
  IF Len(blocks) <= 1 THEN blocks
  ELSE
    LET rest == sortByIndex(SubSeq(blocks, 1, Len(blocks) - 1))
        last == blocks[Len(blocks)]
    IN SelectSeq(rest, LAMBDA b : b.index <= last.index) \o <<last>>
       \o SelectSeq(rest, LAMBDA b : b.index > last.index)

\* translateSingleBlock passes these block types through without a request
passedThrough(block) ==
  block.type \in {"code_block", "blank_lines", "thematic_break"}

\* the statements after translateBlocksStreaming when blocks were translated
incrementalCommit(m) ==
  LET p == m.pass
      allBlockTranslations == mapMerge(p.available, p.newBlockTranslations)
      translation ==
        mergeTranslatedBlocks(p.document, allBlockTranslations, p.boundary)
      blocks == IF enableCache
                THEN setBlocks(m.blockCache, p.newBlockTranslations,
                               p.targetLanguage, now)
                ELSE m.blockCache
      docs == IF enableCache /\ ~p.hasMoreBlocks
              THEN cacheSet(m.docCache, generateHash(p.content), translation, now)
              ELSE m.docCache
  IN return([m EXCEPT !.blockCache = blocks, !.docCache = docs,
                      !.session =
                        updateSession(m.session, p.content, translation,
                                      turns(1), p.document, allBlockTranslations, p.boundary)],
            success(translation, FALSE, p.boundary, p.hasMoreBlocks))

\* translateBlocksStreaming has returned
incrementalAfterStreaming(m) ==
  IF m.pass.cancelled THEN return(observe(m), failure("cancelled"))
  ELSE incrementalCommit(m)

\* the block loop of translateBlocksStreaming without its token test
streamingStops_Never(cancelled) == FALSE

\* the token test at the head of the block loop of translateBlocksStreaming
streamingStops(cancelled) == cancelled

\* The block loop of translateBlocksStreaming from block number chunkIndex of
\* the sorted blocks (pass.chunks holds them, one block each) up to the next
\* "await model.sendRequest" or the return
RECURSIVE streamingLoop(_, _)
streamingLoop(m, style) ==
  LET p == m.pass
      lastBlockIndex == IF p.boundary = NoIndex
                        THEN Len(p.document.blocks) - 1 ELSE p.boundary
  IN IF p.chunkIndex >= Len(p.chunks) THEN incrementalAfterStreaming(m)
     ELSE IF streamingStops(p.cancelled) THEN incrementalAfterStreaming(observe(m))
     ELSE
       LET block == p.chunks[p.chunkIndex + 1][1] IN
       IF block.index > lastBlockIndex THEN incrementalAfterStreaming(m)
       ELSE IF passedThrough(block)
       THEN streamingLoop(
              [m EXCEPT !.pass.newBlockTranslations =
                           mapSet(@, block.hash, block.content),
                        !.pass.chunkIndex = @ + 1],
              style)
       ELSE sendRequest(m, <<block>>, style)

\* translateBlocksIncremental once the blocks that need translation are
\* known (todo): return the merge when there are none, else enter the block
\* loop of translateBlocksStreaming
incrementalTranslate(m, p, todo, style) ==
  IF Len(todo) = 0
  THEN LET translation ==
             mergeTranslatedBlocks(p.document, p.available, p.boundary)
       IN return([m EXCEPT
                    !.pass = p,
                    !.session =
                      updateSession(m.session, p.content, translation,
                                    <<>>, p.document, p.available, p.boundary)],
                 success(translation, TRUE, p.boundary, p.hasMoreBlocks))
  ELSE streamingLoop(
         [m EXCEPT !.pass =
            [p EXCEPT !.chunks = [k \in 1..Len(todo) |-> <<sortByIndex(todo)[k]>>]]],
         style)

\* translateBlocksIncremental once the translations of the session and the
\* block cache are merged (availableTranslations)
incrementalSelect(m, p, availableTranslations, style) ==
  incrementalTranslate(m, [p EXCEPT !.available = availableTranslations],
                       blocksToTranslate(p.blockDiff, p.boundary, availableTranslations),
                       style)

\* translateBlocksIncremental once the block cache was looked up (cached)
incrementalAvailable(m, p, cached, style) ==
  incrementalSelect([m EXCEPT !.blockCache = cached.table], p,
                    mapMerge(m.session[1].blockTranslations, cached.result), style)

\* translateBlocksIncremental once the boundary was remapped
incrementalBoundary(m, p, newTranslatedUpToBlockIndex, style) ==
  incrementalAvailable(
    m,
    [p EXCEPT !.boundary = newTranslatedUpToBlockIndex,
              !.hasMoreBlocks =
                 /\ newTranslatedUpToBlockIndex # NoIndex
                 /\ newTranslatedUpToBlockIndex < Len(p.document.blocks) - 1],
    IF enableCache
    THEN getBlocks(m.blockCache,
                   [k \in 1..Len(p.document.blocks) |-> p.document.blocks[k].hash],
                   p.targetLanguage, now, 1, EmptyMap)
    ELSE [result |-> EmptyMap, table |-> m.blockCache],
    style)

\* translateBlocksIncremental once detectBlockChanges has returned d
incrementalDiffed(m, p, d, style) ==
  LET s == m.session[1]
      oldTranslatedUpToBlockIndex == s.translatedUpToBlockIndex
      oldDocument == s.parsedDocument
  IN IF ~d.diff.hasChanges
     THEN return([m EXCEPT !.session = d.session, !.pass = p],
                 success(s.translatedContent, TRUE, oldTranslatedUpToBlockIndex,
                         /\ oldTranslatedUpToBlockIndex # NoIndex
                         /\ oldDocument # NoDocument
                         /\ oldTranslatedUpToBlockIndex < Len(oldDocument.blocks) - 1))
     ELSE incrementalBoundary(
            [m EXCEPT !.session = d.session],
            [p EXCEPT !.model = s.model, !.blockDiff = d.diff],
            remapBoundary(d.diff, oldTranslatedUpToBlockIndex, Len(p.document.blocks)),
            style)

\* translateBlocksIncremental from the call to its first await or its return
startIncremental(m, newContent, targetLanguage, style) ==
  IF m.session = <<>> \/ m.session[1].model = NoModel
  THEN return([m EXCEPT !.pass =
                 [NoPass EXCEPT !.number = m.pass.number + 1, !.kind = "incremental",
                                !.content = newContent,
                                !.targetLanguage = targetLanguage,
                                !.sessionAtStart = m.session]],
              failure("no-session"))
  ELSE incrementalDiffed(
         m,
         [NoPass EXCEPT !.number = m.pass.number + 1, !.kind = "incremental",
                        !.content = newContent,
                        !.targetLanguage = targetLanguage,
                        !.sessionAtStart = m.session,
                        !.document = parseMarkdownToBlocks(newContent)],
         detectBlockChanges(m.session, newContent),
         style)

\* a fragment of the response arrives in translateSingleBlock
singleBlockFragment(m, style) ==
  IF m.pass.cancelled
  THEN streamingLoop([observe(m) EXCEPT !.pass.chunkIndex = @ + 1], style)
  ELSE [m EXCEPT !.pass.received = @ + 1]

\* the response ends in translateSingleBlock: the translation is recorded
singleBlockStreamEnd(m, style) ==
  LET block == m.pass.chunks[m.pass.chunkIndex + 1][1] IN
  streamingLoop(
    [m EXCEPT !.pass.newBlockTranslations = mapSet(@, block.hash, m.pass.response),
              !.pass.chunkIndex = @ + 1,
              !.pass.completed = @ + 1],
    style)

\* the request throws: translateSingleBlock returns null when the token is
\* cancelled and rethrows otherwise, to the catch clause of the pass
singleBlockCatch(m, style) ==
  IF m.pass.cancelled
  THEN streamingLoop([observe(m) EXCEPT !.pass.chunkIndex = @ + 1], style)
  ELSE return(m, failure("failed"))

-----------------------------------------------------------------------------
(* The system: session, cache and one translation pass at a time *)

\* the texts the document in the editor can have
Docs ==
  {<<"# A", "# B">>, <<"# B", "# A", "---">>, <<"# LongA", "# LongB">>}

\* the target languages
Languages == {"Japanese", "French"}

\* the values of the chunkSize setting
ChunkSizes == {5, 20000}

\* the language models getModel can return
Models == {"copilot"}

\* no pure function has been applied
NoResult == [op |-> "none"]

\* the system before any pass
SysInit ==
  /\ session = <<>>
  /\ docCache = EmptyMap
  /\ blockCache = EmptyMap
  /\ now = 0
  /\ enableCache \in BOOLEAN
  /\ pass = NoPass
  /\ ExtRest

Init ==
  /\ arg = NoText
  /\ ret = NoResult
  /\ SysInit

\* the pass functions write pass, session and the two cache tables
Become(m) ==
  /\ pass' = m.pass
  /\ session' = m.session
  /\ docCache' = m.docCache
  /\ blockCache' = m.blockCache
  /\ UNCHANGED <<arg, ret, now, enableCache, extvars>>

\* no pass is running
Idle == pass.pc \in {"idle", "done"}

\* no pass is running and another one may be started
MayStart == Idle /\ pass.number < MaxPasses

\* translateContentBlockBased(content, targetLanguage, token, options) is
\* called with the current text of the document
StartBlockBased ==
  /\ MayStart
  /\ \E content \in Docs, targetLanguage \in Languages, chunkSize \in ChunkSizes, bypassCache \in BOOLEAN :
       Become(startBlockBased(Machine, content, targetLanguage, chunkSize, bypassCache))

\* getModel resolves, with a model or with none
ModelResolved ==
  /\ pass.pc = "getModel"
  /\ \E model \in Models \cup {NoModel}, style \in ResponseStyles :
       Become(blockBasedPlan(Machine, model, style))

\* translateNextBlockChunk(targetLanguage, chunkSize, token)
StartNextBlockChunk ==
  /\ MayStart
  /\ \E targetLanguage \in Languages, chunkSize \in ChunkSizes, style \in ResponseStyles :
       Become(startNextBlockChunk(Machine, targetLanguage, chunkSize, style))

\* translateAllRemainingBlocks(targetLanguage, token)
StartAllRemainingBlocks ==
  /\ MayStart
  /\ \E targetLanguage \in Languages, style \in ResponseStyles :
       Become(startAllRemainingBlocks(Machine, targetLanguage, style))

\* translateBlocksIncremental(newContent, targetLanguage, token) is called
\* with the current text of the document, edited or not since the last pass
StartIncremental ==
  /\ MayStart
  /\ \E newContent \in Docs, targetLanguage \in Languages, style \in ResponseStyles :
       Become(startIncremental(Machine, newContent, targetLanguage, style))

\* the next fragment of the response is delivered to the fragment loop
ReceiveFragment ==
  /\ pass.pc = "stream"
  /\ pass.received < Len(pass.response)
  /\ \E style \in ResponseStyles :
       Become(CASE pass.kind = "initial" -> blockBasedFragment(Machine)
                [] pass.kind \in {"next", "all"} -> continueFragment(Machine)
                [] pass.kind = "incremental" -> singleBlockFragment(Machine, style))

\* the response ends after its last fragment
StreamEnd ==
  /\ pass.pc = "stream"
  /\ pass.received = Len(pass.response)
  /\ \E style \in ResponseStyles :
       Become(CASE pass.kind = "initial" -> blockBasedStreamEnd(Machine, style)
                [] pass.kind \in {"next", "all"} -> continueStreamEnd(Machine, style)
                [] pass.kind = "incremental" -> singleBlockStreamEnd(Machine, style))

\* sendRequest or the iteration of the response throws
RequestFails ==
  /\ pass.pc = "stream"
  /\ \E style \in ResponseStyles :
       Become(CASE pass.kind = "initial" -> blockBasedCatch(Machine)
                [] pass.kind \in {"next", "all"} -> continueCatch(Machine)
                [] pass.kind = "incremental" -> singleBlockCatch(Machine, style))

\* the token of the running pass is cancelled; a pass runs without
\* interruption between two awaits, so this happens while it awaits
Cancel ==
  /\ pass.pc \in {"getModel", "stream"}
  /\ ~pass.cancelled
  /\ pass' = [pass EXCEPT !.cancelled = TRUE]
  /\ UNCHANGED <<arg, ret, session, docCache, blockCache, now, enableCache, extvars>>

\* clearTranslationSession(), called between two passes; the record of the
\* last pass ends here
ClearSession ==
  /\ Idle
  /\ session # <<>>
  /\ session' = clearSession
  /\ pass' = [NoPass EXCEPT !.number = pass.number]
  /\ UNCHANGED <<arg, ret, docCache, blockCache, now, enableCache, extvars>>

Next ==
  \/ StartBlockBased
  \/ ModelResolved
  \/ StartNextBlockChunk
  \/ StartAllRemainingBlocks
  \/ StartIncremental
  \/ ReceiveFragment
  \/ StreamEnd
  \/ RequestFails
  \/ Cancel
  \/ ClearSession

Spec == Init /\ [][Next]_vars

-----------------------------------------------------------------------------
(* Harness for the pure functions of the parser: the input text is any     *)
(* text of at most MaxLines lines over ParserAlphabet.                     *)

ParserAlphabet ==
  {"", "# A", "Hello", "---", "^^^", "~~~", "- a", "  x", "> q", "|a|",
   "-|-", "<div>", "..."}

TextsUpTo(alphabet, n) == UNION {[1..k -> alphabet] : k \in 1..n}

\* the identity translation map of a document: every block's hash mapped to
\* the block's own content
IdentityMap(document) ==
  [h \in {document.blocks[k].hash : k \in 1..Len(document.blocks)} |->
     (CHOOSE b \in {document.blocks[k] : k \in 1..Len(document.blocks)} :
        b.hash = h).content]

\* the system stays at rest in the harness specifications
SysRest ==
  /\ session = <<>>
  /\ docCache = EmptyMap
  /\ blockCache = EmptyMap
  /\ now = 0
  /\ enableCache = TRUE
  /\ pass = NoPass
  /\ ExtRest

ParseInit ==
  /\ arg \in TextsUpTo(ParserAlphabet, MaxLines)
  /\ ret = NoResult
  /\ SysRest

\* parse the text, then merge the parse with the identity translation map
ParseAndMerge ==
  /\ ret = NoResult
  /\ LET document == parseMarkdownToBlocks(arg) IN
     ret' = [op |-> "parse",
             document |-> document,
             merged |-> mergeTranslatedBlocks(document, IdentityMap(document),
                                              NoIndex),
             joined |-> blocksToContent(document.blocks)]
  /\ UNCHANGED <<arg, sysvars>>

ParseNext == ParseAndMerge

SpecParse == ParseInit /\ [][ParseNext]_vars

\* the blocks whose line range [startLine, endLine] holds line i
BlocksHoldingLine(document, i) ==
  {k \in 1..Len(document.blocks) :
     document.blocks[k].startLine <= i /\ i <= document.blocks[k].endLine}

\* C2: round trip. For every text T, merging parse(T) with the identity
\* translation map returns exactly T; every line of T lies in exactly one
\* block, and joining the block contents with single newlines gives T.
C2_RoundTrip ==
  ret.op = "parse" =>
    /\ ret.merged = arg
    /\ ret.joined = arg
    /\ \A i \in 0..(Len(arg) - 1) :
         Cardinality(BlocksHoldingLine(ret.document, i)) = 1

\* a text of several blocks, one of them of several lines, has been parsed
\* and merged
C2_Witness ==
  /\ ret.op = "parse"
  /\ Len(ret.document.blocks) >= 3
  /\ \E k \in 1..Len(ret.document.blocks) :
       Len(ret.document.blocks[k].content) >= 2
  /\ ret.merged = arg

-----------------------------------------------------------------------------
(* Harness for the diff engine: the old and the new text are any texts of  *)
(* at most MaxDiffLines lines over DiffAlphabet (a heading, which is a     *)
(* block of its own and may repeat, and a paragraph line, whose runs make  *)
(* paragraphs of different contents).                                      *)

DiffAlphabet == {"# A", "Hello"}

DiffInit ==
  /\ arg \in [old : TextsUpTo(DiffAlphabet, MaxDiffLines),
              new : TextsUpTo(DiffAlphabet, MaxDiffLines)]
  /\ ret = NoResult
  /\ SysRest

\* the boundary remap of translateBlocksIncremental for every old boundary
\* of the old document; there is none when the diff is null
remapAll(oldDocument, newDocument, blockDiff) ==
  IF blockDiff = NullDiff THEN <<>>
  ELSE [b \in 0..(Len(oldDocument.blocks) - 1) |->
          remapBoundary(blockDiff, b, Len(newDocument.blocks))]

\* parse the old text, diff the new text against it and remap the boundaries
ParseAndDiff ==
  /\ ret = NoResult
  /\ LET oldDocument == parseMarkdownToBlocks(arg.old)
         newDocument == parseMarkdownToBlocks(arg.new)
         blockDiff == detectBlockChangesInternal(oldDocument, arg.new)
     IN ret' = [op |-> "diff",
                oldDocument |-> oldDocument,
                newDocument |-> newDocument,
                diff |-> blockDiff,
                remapped |-> remapAll(oldDocument, newDocument, blockDiff)]
  /\ UNCHANGED <<arg, sysvars>>

DiffNext == ParseAndDiff

SpecDiff == DiffInit /\ [][DiffNext]_vars

\* how often old index i occurs in the diff: as the old index of an
\* unchanged pair, of a removed change or of a modified change
OldOccurrences(diff, i) ==
  Cardinality({j \in 1..Len(diff.unchangedBlocks) :
                 diff.unchangedBlocks[j].oldIndex = i})
  + Cardinality({j \in 1..Len(diff.changes) :
                   /\ diff.changes[j].type \in {"removed", "modified"}
                   /\ diff.changes[j].oldIndex = i})

\* how often new index i occurs in the diff: as the new index of an
\* unchanged pair, of an added change or of a modified change
NewOccurrences(diff, i) ==
  Cardinality({j \in 1..Len(diff.unchangedBlocks) :
                 diff.unchangedBlocks[j].newIndex = i})
  + Cardinality({j \in 1..Len(diff.changes) :
                   /\ diff.changes[j].type \in {"added", "modified"}
                   /\ diff.changes[j].newIndex = i})

\* C3: diff completeness. In every BlockDiff the diff engine produces,
\* every old block index occurs exactly once among unchanged (old side),
\* removed and modified (old side), every new block index occurs exactly
\* once among unchanged (new side), added and modified (new side), and
\* the diff has as many entries as that needs (no index out of range).
C3_DiffCompleteness ==
  (ret.op = "diff" /\ ret.diff.hasChanges) =>
    /\ \A i \in 0..(Len(ret.oldDocument.blocks) - 1) :
         OldOccurrences(ret.diff, i) = 1
    /\ \A i \in 0..(Len(ret.newDocument.blocks) - 1) :
         NewOccurrences(ret.diff, i) = 1
    /\ \A j \in 1..Len(ret.diff.unchangedBlocks) :
         /\ ret.diff.unchangedBlocks[j].oldIndex \in
              0..(Len(ret.oldDocument.blocks) - 1)
         /\ ret.diff.unchangedBlocks[j].newIndex \in
              0..(Len(ret.newDocument.blocks) - 1)
    /\ \A j \in 1..Len(ret.diff.changes) :
         LET c == ret.diff.changes[j] IN
         /\ c.type # "added" => c.oldIndex \in 0..(Len(ret.oldDocument.blocks) - 1)
         /\ c.type # "removed" => c.newIndex \in 0..(Len(ret.newDocument.blocks) - 1)

\* a diff with an unchanged pair, a modified, an added and a removed block
C3_Witness ==
  /\ ret.op = "diff"
  /\ ret.diff.hasChanges
  /\ Len(ret.diff.unchangedBlocks) >= 1
  /\ \A t \in {"modified", "added", "removed"} :
       \E j \in 1..Len(ret.diff.changes) : ret.diff.changes[j].type = t

\* C4: reconcile returns null only when the new text is the stored text:
\* whenever the two texts differ (also when blocks were only reordered) a
\* BlockDiff is returned.
C4_NullOnlyWhenUnchanged ==
  (ret.op = "diff" /\ arg.new # arg.old) => ret.diff.hasChanges

-----------------------------------------------------------------------------
(* Properties of the translation passes, checked under Spec *)

\* the blocks of the requests the pass has sent so far
RequestedBlocks ==
  UNION {{pass.requests[r][j] : j \in 1..Len(pass.requests[r])} :
           r \in 1..Len(pass.requests)}

\* the blocks of the requests that were answered to the end
CompletedBlocks ==
  UNION {{pass.requests[r][j] : j \in 1..Len(pass.requests[r])} :
           r \in 1..pass.completed}

\* an incremental update is awaiting a response; the session and the block
\* cache are then still as the pass found them
UpdateStreaming == pass.kind = "incremental" /\ pass.pc = "stream"

\* the diff of the text of the running update against the session
UpdateDiff ==
  detectBlockChangesInternal(session[1].parsedDocument, pass.content)

\* the remapped boundary of the running update
UpdateBoundary ==
  remapBoundary(UpdateDiff, session[1].translatedUpToBlockIndex,
                Len(parseMarkdownToBlocks(pass.content).blocks))

SelfDiffTexts == Docs \cup TextsUpTo(DiffAlphabet, 3)

\* the diff of every text against its own parse is null
SelfDiffIsNull ==
  \A T \in SelfDiffTexts :
    detectBlockChangesInternal(parseMarkdownToBlocks(T), T) = NullDiff

\* an incremental update has returned that was called on a live session with
\* the very text the session holds
UpdateOfSameText ==
  /\ pass.kind = "incremental"
  /\ pass.pc = "done"
  /\ pass.sessionAtStart # <<>>
  /\ pass.content = pass.sessionAtStart[1].originalContent

\* C5: the diff of a text against itself is null (computed once, in the
\* initial states, for every text of SelfDiffTexts), and an incremental update
\* called with the text the session holds sends no request, returns the stored
\* translation and leaves the session as it was.
C5_SelfDiffNullAndNoRequest ==
  /\ pass.pc = "idle" => SelfDiffIsNull
  /\ UpdateOfSameText =>
       /\ pass.blockDiff = NullDiff
       /\ pass.requests = <<>>
       /\ pass.result.success
       /\ pass.result.translation = pass.sessionAtStart[1].translatedContent
       /\ session = pass.sessionAtStart

\* such an update has returned on a partly translated session
C5_Witness ==
  /\ UpdateOfSameText
  /\ pass.result.success
  /\ pass.sessionAtStart[1].translatedUpToBlockIndex = 0
  /\ Len(pass.sessionAtStart[1].parsedDocument.blocks) > 1

\* C6: after a successful pass every block of the session document at an
\* index up to translatedUpToBlockIndex has an entry in the session map.
C6_TranslatedRegionHasEntries ==
  (pass.pc = "done" /\ pass.result.success /\ session # <<>>) =>
    \A k \in 1..Len(session[1].parsedDocument.blocks) :
      k - 1 <= session[1].translatedUpToBlockIndex =>
        hasEntry(session[1].blockTranslations, session[1].parsedDocument.blocks[k].hash)

\* a chunked pass has returned the failure with the given error after at
\* least one of its requests was answered to the end
ChunkedPassEnded(error) ==
  /\ pass.kind \in {"initial", "next", "all"}
  /\ pass.pc = "done"
  /\ pass.result.error = error
  /\ pass.completed >= 1

\* the session holds a translation for every block of the answered requests
\* and its translatedUpToBlockIndex is at or past them
CompletedBlocksCommitted ==
  /\ session # <<>>
  /\ \A b \in CompletedBlocks :
       /\ hasEntry(session[1].blockTranslations, b.hash)
       /\ session[1].translatedUpToBlockIndex # NoIndex
       /\ b.index <= session[1].translatedUpToBlockIndex

\* C7: when a chunked pass (initial, next chunk, all remaining) returns
\* because it saw the cancellation, the blocks of the chunks that were answered
\* before are translated in the session and translatedUpToBlockIndex is at or
\* past them.
C7_CancelCommitsCompletedChunks ==
  ChunkedPassEnded("cancelled") => CompletedBlocksCommitted

\* C8: when a request of a chunked pass fails, the blocks of the chunks that
\* were answered before are translated in the session, translatedUpToBlockIndex
\* is at or past them, and the session is still there.
C8_FailureCommitsCompletedChunks ==
  ChunkedPassEnded("failed") => CompletedBlocksCommitted

\* C9: once a pass has read its token as cancelled it sends no request: the
\* number of requests sent stays the number sent at that moment.
C9_NoRequestAfterCancelSeen ==
  pass.observedAt # NoIndex => Len(pass.requests) = pass.observedAt

\* a translate-all pass with two internal chunks ahead saw the cancellation
\* after its first request and returned without sending the second
C9_Witness ==
  /\ pass.kind = "all"
  /\ pass.pc = "done"
  /\ pass.observedAt = 1
  /\ pass.result.error = "cancelled"
  /\ Len(splitIntoInternalChunks(
           SubSeq(pass.sessionAtStart[1].parsedDocument.blocks,
                  pass.startIndex + 1,
                  Len(pass.sessionAtStart[1].parsedDocument.blocks)))) = 2

\* a continue pass was called on a session it can continue
ContinuePass ==
  /\ pass.kind \in {"next", "all"}
  /\ ~noContinuableSession(pass.sessionAtStart)

\* C10: a continue pass sends only blocks whose index is greater than the
\* translatedUpToBlockIndex the session had when the pass began; when that
\* index is the last block index the pass sends nothing and returns the merge
\* of the stored translations.
C10_ContinueSendsOnlyLaterBlocks ==
  ContinuePass =>
    LET s0 == pass.sessionAtStart[1] IN
    /\ \A b \in RequestedBlocks :
         s0.translatedUpToBlockIndex # NoIndex => b.index > s0.translatedUpToBlockIndex
    /\ s0.translatedUpToBlockIndex = Len(s0.parsedDocument.blocks) - 1 =>
         /\ pass.pc = "done"
         /\ pass.requests = <<>>
         /\ pass.result.success
         /\ pass.result.translation =
              mergeTranslatedBlocks(s0.parsedDocument, s0.blockTranslations, NoIndex)

\* a next-chunk pass on a partly translated session has sent a request and
\* returned with success
C10_Witness ==
  /\ ContinuePass
  /\ pass.kind = "next"
  /\ pass.pc = "done"
  /\ pass.result.success
  /\ pass.sessionAtStart[1].translatedUpToBlockIndex = 0
  /\ Len(pass.requests) = 1

-----------------------------------------------------------------------------
(* Forward progress: one initial pass, then translateNextBlockChunk again   *)
(* and again on the same text, with no cancellation, failure or edit.       *)

\* the number of passes started in one run of SpecProgress
MaxProgressPasses == 5

\* translateNextBlockChunk(targetLanguage, chunkSize, token) is called once
\* more
ContinueNextChunk ==
  /\ Idle
  /\ pass.number >= 1
  /\ pass.number < MaxProgressPasses
  /\ \E targetLanguage \in Languages, chunkSize \in ChunkSizes, style \in ResponseStyles :
       Become(startNextBlockChunk(Machine, targetLanguage, chunkSize, style))

\* the document is translated for the first time
StartFirst == pass.number = 0 /\ StartBlockBased

ProgressNext ==
  \/ StartFirst
  \/ ModelResolved
  \/ ReceiveFragment
  \/ StreamEnd
  \/ ContinueNextChunk

\* the passes run to their end and the user asks for the next chunk
SpecProgress == Init /\ [][ProgressNext]_vars

\* translatedUpToBlockIndex of a session state, -1 when it is undefined
indexOf(s) ==
  IF s[1].translatedUpToBlockIndex = NoIndex THEN -1
  ELSE s[1].translatedUpToBlockIndex

\* the session is translated up to its last block
FullyTranslated ==
  /\ session # <<>>
  /\ indexOf(session) = Len(session[1].parsedDocument.blocks) - 1

\* translateNextBlockChunk has returned with success after translating
NextChunkTranslated ==
  /\ pass.kind = "next"
  /\ pass.pc = "done"
  /\ pass.result.success
  /\ ~pass.result.fromCache

\* a successful translateNextBlockChunk has moved translatedUpToBlockIndex
\* forward and reports hasMoreBlocks exactly while blocks are left
NextChunkAdvances ==
  NextChunkTranslated =>
    /\ indexOf(session) > indexOf(pass.sessionAtStart)
    /\ pass.result.translatedUpToBlockIndex = indexOf(session)
    /\ pass.result.hasMoreBlocks = ~FullyTranslated

\* every pass of the run has translated at least one more block: once as
\* many passes have returned as the document has blocks, the session is
\* translated up to its last block
TranslatedAfterOnePassPerBlock ==
  (/\ pass.pc = "done"
   /\ session # <<>>
   /\ pass.number >= Len(session[1].parsedDocument.blocks)) => FullyTranslated

\* C11: with no edit, cancellation or failure every successful
\* translateNextBlockChunk moves translatedUpToBlockIndex strictly forward,
\* also when the next block alone is larger than the chunk size; the index
\* reaches the last block after at most one pass per block, and hasMoreBlocks
\* is false from then on.
C11_ForwardProgress ==
  /\ NextChunkAdvances
  /\ TranslatedAfterOnePassPerBlock
  /\ (FullyTranslated /\ pass.pc = "done" /\ pass.result.success)
       => ~pass.result.hasMoreBlocks

\* translateNextBlockChunk with a chunk size of 5 has translated a block of
\* 6000 characters, and with it the last block of the document
C11_Witness ==
  /\ NextChunkTranslated
  /\ pass.chunkSize = 5
  /\ Len(pass.requests) = 1
  /\ Len(pass.requests[1]) = 1
  /\ textLength(pass.requests[1][1].content) = LONG_LINE_LENGTH
  /\ indexOf(pass.sessionAtStart) = 0
  /\ FullyTranslated

-----------------------------------------------------------------------------
(* Harness for the cache: entries are written and looked up in both tables  *)
(* while the clock advances.                                                *)

\* the values Date.now() takes: two times of writing and the times around
\* maxAge after them
ClockTimes == {0, 1, MAX_AGE - 1, MAX_AGE, MAX_AGE + 1, MAX_AGE + 2}

\* the texts whose translation is cached and the blocks cached for a language
CachedTexts == {<<"# A">>, <<"Hello">>}

CachedBlockKeys == {<<generateHash(<<"# A">>), l>> : l \in Languages}

CacheInit ==
  /\ arg = NoText
  /\ ret = NoResult
  /\ session = <<>>
  /\ docCache = EmptyMap
  /\ blockCache = EmptyMap
  /\ now = 0
  /\ enableCache = TRUE
  /\ pass = NoPass
  /\ ExtRest

\* Date.now() has moved on
Tick ==
  /\ \E time \in ClockTimes : time > now /\ now' = time
  /\ UNCHANGED <<arg, ret, session, docCache, blockCache, enableCache, pass, extvars>>

\* the record of a lookup: the table and its key, the time, the table before
\* the lookup and the value returned
lookup(tableName, key, before, g) ==
  [op |-> "get", table |-> tableName, key |-> key, time |-> now,
   before |-> before, value |-> g.value]

\* translationCache.set(content, translation)
CacheSetDocument ==
  /\ \E content \in CachedTexts :
       /\ docCache' = cacheSet(docCache, generateHash(content), respond(content, "faithful"), now)
       /\ arg' = content
  /\ ret' = NoResult
  /\ UNCHANGED <<session, blockCache, now, enableCache, pass, extvars>>

\* translationCache.get(content)
CacheGetDocument ==
  /\ \E content \in CachedTexts :
       LET g == cacheGet(docCache, generateHash(content), now) IN
       /\ docCache' = g.table
       /\ arg' = content
       /\ ret' = lookup("document", generateHash(content), docCache, g)
  /\ UNCHANGED <<session, blockCache, now, enableCache, pass, extvars>>

\* translationCache.setBlock(sourceHash, targetLanguage, translation)
CacheSetBlock ==
  /\ \E key \in CachedBlockKeys :
       blockCache' = cacheSet(blockCache, key, respond(key[1].sha256, "faithful"), now)
  /\ arg' = NoText
  /\ ret' = NoResult
  /\ UNCHANGED <<session, docCache, now, enableCache, pass, extvars>>

\* translationCache.getBlock(sourceHash, targetLanguage)
CacheGetBlock ==
  /\ \E key \in CachedBlockKeys :
       LET g == cacheGet(blockCache, key, now) IN
       /\ blockCache' = g.table
       /\ ret' = lookup("block", key, blockCache, g)
  /\ arg' = NoText
  /\ UNCHANGED <<session, docCache, now, enableCache, pass, extvars>>

CacheNext ==
  \/ Tick
  \/ CacheSetDocument
  \/ CacheGetDocument
  \/ CacheSetBlock
  \/ CacheGetBlock

SpecCache == CacheInit /\ [][CacheNext]_vars

\* the table the last lookup was made in, as it is after the lookup
LookedUpTable == IF ret.table = "document" THEN docCache ELSE blockCache

\* the last step was a lookup of a key the table held
LookupOfWrittenKey == ret.op = "get" /\ ret.key \in DOMAIN ret.before

\* C12: a lookup made u - t after the entry was written returns the entry and
\* leaves it in the table when u - t <= maxAge (24 hours), and returns nothing
\* and removes the entry when u - t > maxAge, in the document table and in the
\* block table alike.
C12_CacheTtl ==
  LookupOfWrittenKey =>
    LET entry == ret.before[ret.key]
        age == ret.time - entry.timestamp
    IN /\ MAX_AGE = 24 * 60 * 60 * 1000
       /\ age <= MAX_AGE =>
            /\ ret.value = <<entry.translation>>
            /\ LookedUpTable = ret.before
       /\ age > MAX_AGE =>
            /\ ret.value = <<>>
            /\ ret.key \notin DOMAIN LookedUpTable
            /\ \A k \in DOMAIN ret.before \ {ret.key} :
                 k \in DOMAIN LookedUpTable /\ LookedUpTable[k] = ret.before[k]

\* a block entry written at time 1 was looked up at 1 + maxAge + 1, found
\* expired and removed
C12_Witness ==
  /\ LookupOfWrittenKey
  /\ ret.table = "block"
  /\ ret.before[ret.key].timestamp = 1
  /\ ret.time = 1 + MAX_AGE + 1
  /\ ret.value = <<>>
  /\ ret.key \notin DOMAIN blockCache

-----------------------------------------------------------------------------
(* Harness for the chunk planner: the blocks of any text of at most         *)
(* MaxPlanLines lines over PlanAlphabet are planned from any start index    *)
(* with any of PlanLimits as the chunk size.                                *)

MaxPlanLines == 4

\* lines of 5, 8, 3, 0 and 6000 characters; "LongText" is a paragraph line
PlanAlphabet == {"Hello", "# Header", "# A", "", "# LongA", "# LongB", "LongText"}

PlanLimits == {0, 5, 10, 11, 12, 20000}

PlanInit ==
  /\ arg \in TextsUpTo(PlanAlphabet, MaxPlanLines)
  /\ ret = NoResult
  /\ SysRest

\* selectBlocksForChunk(blocks, startIndex, chunkSize) on the blocks of the
\* text, then splitIntoInternalChunks(blocksToTranslate), as the passes call
\* them; each text is planned once
PlanChunk ==
  /\ ret = NoResult
  /\ LET blocks == parseMarkdownToBlocks(arg).blocks IN
     \E startIndex \in 0..(Len(blocks) - 1), chunkSize \in PlanLimits :
       LET sel == selectBlocksForChunk(blocks, startIndex, chunkSize) IN
       ret' = [op |-> "select", blocks |-> blocks, startIndex |-> startIndex,
               chunkSize |-> chunkSize,
               blocksToTranslate |-> sel.blocksToTranslate,
               lastBlockIndex |-> sel.lastBlockIndex,
               internalChunks |-> splitIntoInternalChunks(sel.blocksToTranslate)]
  /\ UNCHANGED <<arg, sysvars>>

PlanNext == PlanChunk

SpecPlan == PlanInit /\ [][PlanNext]_vars

\* the sum of len(content) + 1 over the blocks a..b (0-based) of the plan
RECURSIVE runningTotal(_, _)
runningTotal(a, b) ==
  IF b < a THEN 0
  ELSE runningTotal(a, b - 1) + textLength(ret.blocks[b + 1].content) + 1

\* C13: the chunk planned from start < len(blocks) is the non-empty run
\* blocks[start..last]; each block after the first was admitted with the
\* running total of the blocks before it plus its own length within the
\* limit; the block after the run, if any, fails that test; and the joined
\* content of a chunk of two or more blocks is at most the limit.
C13_ChunkPlannerBound ==
  ret.op = "select" =>
    /\ ret.lastBlockIndex >= ret.startIndex
    /\ ret.lastBlockIndex < Len(ret.blocks)
    /\ ret.blocksToTranslate =
         SubSeq(ret.blocks, ret.startIndex + 1, ret.lastBlockIndex + 1)
    /\ \A j \in (ret.startIndex + 1)..ret.lastBlockIndex :
         runningTotal(ret.startIndex, j - 1) + textLength(ret.blocks[j + 1].content)
           <= ret.chunkSize
    /\ ret.lastBlockIndex < Len(ret.blocks) - 1 =>
         runningTotal(ret.startIndex, ret.lastBlockIndex)
           + textLength(ret.blocks[ret.lastBlockIndex + 2].content) > ret.chunkSize
    /\ Len(ret.blocksToTranslate) >= 2 =>
         textLength(blocksToContent(ret.blocksToTranslate)) <= ret.chunkSize

\* a chunk of two blocks that fills the limit of 12 to the last character,
\* and stops before a third block
C13_Witness ==
  /\ ret.op = "select"
  /\ ret.chunkSize = 12
  /\ Len(ret.blocksToTranslate) = 2
  /\ textLength(blocksToContent(ret.blocksToTranslate)) = 12
  /\ ret.lastBlockIndex < Len(ret.blocks) - 1

-----------------------------------------------------------------------------
(* Chunks of successive passes, checked under SpecProgress *)

\* the blocks of a sequence of chunks, in order
RECURSIVE flatten(_)
flatten(chunks) ==
  IF Len(chunks) = 0 THEN <<>> ELSE Head(chunks) \o flatten(Tail(chunks))

\* the index of the first block the pass has to translate
ChunkStart ==
  IF pass.kind = "initial" THEN 0 ELSE indexOf(pass.sessionAtStart) + 1

\* an initial or next-chunk pass has returned with success after translating
ChunkTranslated ==
  /\ pass.kind \in {"initial", "next"}
  /\ pass.pc = "done"
  /\ pass.result.success
  /\ ~pass.result.fromCache

\* C14: the chunk of a pass is the run of whole blocks of the document from
\* the block after the translated ones up to the new translatedUpToBlockIndex,
\* so the chunks of successive passes follow each other without gap or
\* overlap until the last block; the internal chunks of a pass are non-empty
\* and, put one after the other, are the chunk of the pass.
C14_ChunksTileTheDocument ==
  /\ (pass.pc = "stream" /\ pass.kind \in {"initial", "next"}) =>
       /\ \A c \in 1..Len(pass.chunks) : Len(pass.chunks[c]) >= 1
       /\ flatten(pass.chunks) =
            SubSeq(pass.document.blocks, ChunkStart + 1, pass.lastBlockIndex + 1)
       /\ pass.requests = SubSeq(pass.chunks, 1, Len(pass.requests))
  /\ ChunkTranslated =>
       /\ \A r \in 1..Len(pass.requests) : Len(pass.requests[r]) >= 1
       /\ indexOf(session) >= ChunkStart
       /\ flatten(pass.requests) =
            SubSeq(session[1].parsedDocument.blocks, ChunkStart + 1,
                   indexOf(session) + 1)
       /\ pass.kind = "next" =>
            session[1].parsedDocument = pass.sessionAtStart[1].parsedDocument

\* the first pass took block 0 and the next pass the two blocks after it,
\* the last ones of the document
C14_Witness ==
  /\ ChunkTranslated
  /\ pass.kind = "next"
  /\ ChunkStart = 1
  /\ Len(flatten(pass.requests)) = 2
  /\ FullyTranslated

-----------------------------------------------------------------------------
(* The planner scenario, checked under SpecPlan *)

\* a text of three blocks of 5, 8 and 3 characters
ScenarioText == <<"Hello", "# Header", "# A">>

\* the scenario was planned from the given index with a limit of 10
ScenarioPlanned(startIndex) ==
  /\ arg = ScenarioText
  /\ ret.op = "select"
  /\ ret.chunkSize = 10
  /\ ret.startIndex = startIndex
  /\ Len(ret.blocks) = 3
  /\ \A k \in 1..3 : textLength(ret.blocks[k].content) = <<5, 8, 3>>[k]

\* C15: with a limit of 10 over blocks of 5, 8 and 3 characters, planning
\* from index 0 yields [block0] (last index 0); planning from index 1 yields
\* [block1] alone (last index 1), since 8 + 1 + 3 = 12 > 10; planning from
\* index 2 yields [block2] (last index 2).
C15_PlannerScenario ==
  /\ ScenarioPlanned(0) =>
       ret.blocksToTranslate = <<ret.blocks[1]>> /\ ret.lastBlockIndex = 0
  /\ ScenarioPlanned(1) =>
       ret.blocksToTranslate = <<ret.blocks[2]>> /\ ret.lastBlockIndex = 1
  /\ ScenarioPlanned(2) =>
       ret.blocksToTranslate = <<ret.blocks[3]>> /\ ret.lastBlockIndex = 2

\* the scenario was planned from index 1
C15_Witness == ScenarioPlanned(1) /\ Len(ret.blocksToTranslate) = 1

\* C15 as stated: planning from index 0 yields [block0] and planning again
\* from index 1 yields [block1, block2] (last index 2).
C15_PlannerScenarioAsStated ==
  /\ ScenarioPlanned(0) =>
       ret.blocksToTranslate = <<ret.blocks[1]>> /\ ret.lastBlockIndex = 0
  /\ ScenarioPlanned(1) =>
       ret.blocksToTranslate = <<ret.blocks[2], ret.blocks[3]>> /\ ret.lastBlockIndex = 2

-----------------------------------------------------------------------------
(* Passes that need a session, checked under Spec *)

\* this step is the call of an incremental update or of a continue pass
\* while there is no session
CalledWithoutSession ==
  /\ session = <<>>
  /\ pass'.number = pass.number + 1
  /\ pass'.kind \in {"incremental", "next", "all"}

\* C16: called without a session, translateBlocksIncremental,
\* translateNextBlockChunk and translateAllRemainingBlocks return the failure
\* that says there is no active session, send no request and leave the
\* session absent and both cache tables as they were.
C16_NoSessionFailure ==
  [][CalledWithoutSession =>
       /\ pass'.pc = "done"
       /\ ~pass'.result.success
       /\ pass'.result.error = "no-session"
       /\ pass'.requests = <<>>
       /\ session' = <<>>
       /\ docCache' = docCache
       /\ blockCache' = blockCache]_vars

\* an incremental update was refused after the session of a cached
\* translation had been cleared
C16_Witness ==
  /\ pass.kind = "incremental"
  /\ pass.pc = "done"
  /\ pass.sessionAtStart = <<>>
  /\ pass.result.error = "no-session"
  /\ session = <<>>
  /\ blockCache # EmptyMap
  /\ docCache # EmptyMap

-----------------------------------------------------------------------------
(* Harness for the session operations                                      *)
(*                                                                         *)
(* A session is started the way translateContentStreaming starts it        *)
(* (without a parsed document) or the way the block-based pass starts it,  *)
(* and is then reconciled against a text, advanced or cleared; ret keeps   *)
(* the last operation with its inputs and the state it was applied to.     *)
(* A session is started when there is none, and one update is applied to  *)
(* a session that was just started or cleared, which keeps the state       *)
(* space small: the started sessions already hold every map and index.     *)

\* the texts a session is started on and reconciled against
SessionTexts == {<<"# A", "Hello">>, <<"Hello", "# A", "Hello">>}

\* the translations a batch gives to a block
BlockTexts == {<<"T1">>, <<"T2">>}

\* the fingerprints a batch can hold
BatchKeys == {generateHash(<<"# A">>), generateHash(<<"Hello">>)}

\* the batches: every map from some of the fingerprints to translations
Batches == UNION {[K -> BlockTexts] : K \in SUBSET BatchKeys}

SessionInit ==
  /\ arg = <<>>
  /\ ret = NoResult
  /\ SysRest

\* translateContentStreaming: initSession(content, translation, [userMessage,
\* assistantMessage], model)
SessionStartStreaming ==
  /\ session = <<>>
  /\ \E content \in SessionTexts :
       session' = initSession(content, respond(content, "faithful"), turns(1),
                              "copilot", NoDocument, EmptyMap, NoIndex)
  /\ ret' = [op |-> "init"]
  /\ UNCHANGED <<arg, docCache, blockCache, now, enableCache, pass, extvars>>

\* the block-based pass: initSession with the parsed document, the block
\* translations and the index of the last translated block
SessionStartBlocks ==
  /\ session = <<>>
  /\ \E content \in SessionTexts, blockTranslations \in Batches :
       LET parsed == parseMarkdownToBlocks(content) IN
       \E upTo \in 0..(Len(parsed.blocks) - 1) :
         session' = initSession(content,
                                mergeTranslatedBlocks(parsed, blockTranslations, upTo),
                                turns(1), "copilot", parsed, blockTranslations, upTo)
  /\ ret' = [op |-> "init"]
  /\ UNCHANGED <<arg, docCache, blockCache, now, enableCache, pass, extvars>>

\* clearSession()
SessionClear ==
  /\ session # <<>>
  /\ session' = clearSession
  /\ ret' = [op |-> "clear"]
  /\ UNCHANGED <<arg, docCache, blockCache, now, enableCache, pass, extvars>>

\* detectBlockChanges(newContent), with or without a session
Reconcile ==
  /\ \E newContent \in SessionTexts :
       LET detected == detectBlockChanges(session, newContent) IN
       /\ session' = detected.session
       /\ ret' = [op |-> "detect", before |-> session,
                  newContent |-> newContent, diff |-> detected.diff]
  /\ UNCHANGED <<arg, docCache, blockCache, now, enableCache, pass, extvars>>

\* updateSession(...), with or without a session; the optional parameters
\* are given or absent
Advance ==
  /\ ret.op \in {"none", "init", "clear"}
  /\ \E originalContent \in SessionTexts, newMessages \in {<<>>, turns(1)}, withDocument \in BOOLEAN,
        blockTranslations \in Batches, translatedUpToBlockIndex \in {NoIndex, 0, 2} :
       LET parsedDocument == IF withDocument
                             THEN parseMarkdownToBlocks(originalContent)
                             ELSE NoDocument
           translatedContent == respond(originalContent, "faithful")
       IN /\ session' = updateSession(session, originalContent, translatedContent,
                                      newMessages, parsedDocument,
                                      blockTranslations, translatedUpToBlockIndex)
          /\ ret' = [op |-> "update", before |-> session,
                     originalContent |-> originalContent,
                     translatedContent |-> translatedContent,
                     newMessages |-> newMessages,
                     parsedDocument |-> parsedDocument,
                     blockTranslations |-> blockTranslations,
                     translatedUpToBlockIndex |-> translatedUpToBlockIndex]
  /\ UNCHANGED <<arg, docCache, blockCache, now, enableCache, pass, extvars>>

SessionNext ==
  \/ SessionStartStreaming
  \/ SessionStartBlocks
  \/ SessionClear
  \/ Reconcile
  \/ Advance

SpecSession == SessionInit /\ [][SessionNext]_vars

-----------------------------------------------------------------------------
(* Reconcile (detectBlockChanges), checked under SpecSession *)

\* the last operation reconciled newContent while there was no session
ReconciledWithoutSession == ret.op = "detect" /\ ret.before = <<>>

\* C17: reconciling while no session exists gives an outcome that differs
\* from the "document unchanged" result (a null diff), so that the caller can
\* tell the two apart.
C17_NoSessionToldApart == ReconciledWithoutSession => ret.diff # NullDiff

\* C18: reconcile does not mutate the session: after the call every field of
\* the session is what it was before the call, also for a session that was
\* started without a parsed document.
C18_ReconcileLeavesSession == ret.op = "detect" => session = ret.before

-----------------------------------------------------------------------------
(* Advance (updateSession), checked under SpecSession *)

\* C19: an update merges the batch into the stored map (the entries of the
\* old map whose fingerprint is not in the batch keep their value, the
\* entries of the batch are present with the batch's value), an absent
\* parsed document, batch or index leaves its field as it was, the new
\* conversation turns follow the old ones, and without a session the call
\* changes nothing.
C19_AdvanceMerges ==
  ret.op = "update" =>
    IF ret.before = <<>> THEN session = <<>>
    ELSE LET old == ret.before[1]
             new == session[1]
             M == old.blockTranslations
             B == ret.blockTranslations
         IN /\ \A h \in (DOMAIN M) \ (DOMAIN B) :
                 /\ h \in DOMAIN new.blockTranslations
                 /\ new.blockTranslations[h] = M[h]
            /\ \A h \in DOMAIN B :
                 /\ h \in DOMAIN new.blockTranslations
                 /\ new.blockTranslations[h] = B[h]
            /\ ret.parsedDocument = NoDocument =>
                 new.parsedDocument = old.parsedDocument
            /\ B = EmptyMap => new.blockTranslations = M
            /\ ret.translatedUpToBlockIndex = NoIndex =>
                 new.translatedUpToBlockIndex = old.translatedUpToBlockIndex
            /\ new.messages = old.messages \o ret.newMessages

\* an update of a live session whose batch overrides one stored entry with
\* another value and leaves another stored entry alone, with new turns and
\* without a parsed document or an index
C19_Witness ==
  /\ ret.op = "update"
  /\ ret.before # <<>>
  /\ \E h \in DOMAIN ret.before[1].blockTranslations :
       h \notin DOMAIN ret.blockTranslations
  /\ \E h \in DOMAIN ret.blockTranslations :
       /\ h \in DOMAIN ret.before[1].blockTranslations
       /\ ret.before[1].blockTranslations[h] # ret.blockTranslations[h]
  /\ ret.newMessages # <<>>
  /\ ret.parsedDocument = NoDocument
  /\ ret.before[1].parsedDocument # NoDocument
  /\ ret.translatedUpToBlockIndex = NoIndex
  /\ ret.before[1].translatedUpToBlockIndex # NoIndex

-----------------------------------------------------------------------------
(* Harness for the merge                                                   *)
(*                                                                         *)
(* mergeTranslatedBlocks is applied to the parsed document of a text, a    *)
(* map from some of the block fingerprints to translations of one or two   *)
(* lines, and an optional bound.                                           *)

\* the merged texts: two or three blocks, one of them a paragraph of two lines
MergeTexts ==
  {<<"# A", "Hello">>, <<"Hello", "# A", "Hello">>,
   <<"Hello", "Hello", "# A", "Hello">>}

\* the translations of a block
MergeTranslations == {<<"T1">>, <<"T2a", "T2b">>}

\* the maps: every map from some of the fingerprints to translations
MergeMaps == UNION {[K -> MergeTranslations] : K \in SUBSET BatchKeys}

\* the values of the optional bound: absent, or 0..3 (3 is beyond the last
\* block of every text)
OptionalIndexes == {NoIndex, 0, 1, 2, 3}

MergeInit ==
  /\ arg \in [content : MergeTexts, translations : MergeMaps,
              upToBlockIndex : OptionalIndexes]
  /\ ret = NoResult
  /\ SysRest

\* mergeTranslatedBlocks(document, translations, upToBlockIndex)
Merge ==
  /\ ret = NoResult
  /\ LET document == parseMarkdownToBlocks(arg.content) IN
     ret' = [op |-> "merge", document |-> document,
             text |-> mergeTranslatedBlocks(document, arg.translations,
                                            arg.upToBlockIndex)]
  /\ UNCHANGED <<arg, sysvars>>

MergeNext == Merge

SpecMerge == MergeInit /\ [][MergeNext]_vars

\* what block i (counted from 1) of the merged document contributes
contribution(i) ==
  IF ret.document.blocks[i].hash \in DOMAIN arg.translations
  THEN arg.translations[ret.document.blocks[i].hash]
  ELSE ret.document.blocks[i].content

\* the number of lines the blocks before block i contribute
RECURSIVE linesBefore(_)
linesBefore(i) ==
  IF i <= 1 THEN 0 ELSE linesBefore(i - 1) + Len(contribution(i - 1))

\* the number of blocks merged: up to the bound, and never more than there are
mergedCount ==
  IF arg.upToBlockIndex = NoIndex THEN Len(ret.document.blocks)
  ELSE min(arg.upToBlockIndex, Len(ret.document.blocks) - 1) + 1

\* C20: the merge of a document of n blocks with the optional bound k is, for
\* the blocks 0..min(k, n-1) in index order (all blocks when k is absent),
\* the map's translation of the block's fingerprint when there is one and
\* the block's own content otherwise, joined by single newlines; no block
\* beyond k contributes.
C20_MergeUpToBound ==
  ret.op = "merge" =>
    /\ Len(ret.text) = linesBefore(mergedCount + 1)
    /\ \A i \in 1..mergedCount :
         SubSeq(ret.text, linesBefore(i) + 1, linesBefore(i) + Len(contribution(i)))
           = contribution(i)

\* a merge with a bound before the last block, in which one merged block
\* has a translation and another has none
C20_Witness ==
  /\ ret.op = "merge"
  /\ arg.upToBlockIndex # NoIndex
  /\ arg.upToBlockIndex < Len(ret.document.blocks) - 1
  /\ \E i, j \in 1..mergedCount :
       /\ ret.document.blocks[i].hash \in DOMAIN arg.translations
       /\ ret.document.blocks[j].hash \notin DOMAIN arg.translations
       /\ Len(contribution(j)) = 2

-----------------------------------------------------------------------------
(* Boundary remap, checked under SpecDiff *)

\* the unchanged pairs of the diff whose old index is at or before b
unchangedUpTo(b) ==
  {k \in 1..Len(ret.diff.unchangedBlocks) : ret.diff.unchangedBlocks[k].oldIndex <= b}

\* the modified changes of the diff whose old index is at or before b
modifiedUpTo(b) ==
  {k \in 1..Len(ret.diff.changes) :
     /\ ret.diff.changes[k].type = "modified"
     /\ ret.diff.changes[k].oldIndex <= b}

\* C21: for every diff and old boundary b the remapped boundary is at or
\* after the new index of every unchanged block and of every modified block
\* whose old index is at most b; without such an unchanged block it is the
\* highest new index of such modified blocks, and without those as well it
\* is min(b, newBlockCount - 1).
C21_RemapKeepsSurvivors ==
  ret.op = "diff" =>
    \A b \in DOMAIN ret.remapped :
      /\ \A k \in unchangedUpTo(b) :
           ret.remapped[b] >= ret.diff.unchangedBlocks[k].newIndex
      /\ \A k \in modifiedUpTo(b) :
           ret.remapped[b] >= ret.diff.changes[k].newIndex
      /\ (unchangedUpTo(b) = {} /\ modifiedUpTo(b) # {}) =>
           ret.remapped[b] =
             maxOf({ret.diff.changes[k].newIndex : k \in modifiedUpTo(b)})
      /\ (unchangedUpTo(b) = {} /\ modifiedUpTo(b) = {}) =>
           ret.remapped[b] = min(b, Len(ret.newDocument.blocks) - 1)

\* a diff with a modification at the old boundary, after unchanged blocks:
\* the remapped boundary is the modified block, beyond every unchanged one
C21_Witness ==
  /\ ret.op = "diff"
  /\ \E b \in DOMAIN ret.remapped :
       /\ unchangedUpTo(b) # {}
       /\ \E k \in modifiedUpTo(b) :
            /\ ret.diff.changes[k].oldIndex = b
            /\ ret.remapped[b] = ret.diff.changes[k].newIndex
       /\ \A k \in unchangedUpTo(b) :
            ret.remapped[b] > ret.diff.unchangedBlocks[k].newIndex

-----------------------------------------------------------------------------
(* The session after a first pass, checked under Spec *)

\* translateContentBlockBased has returned success
BlockBasedSucceeded ==
  pass.kind = "initial" /\ pass.pc = "done" /\ pass.result.success

\* C25: after translateContentBlockBased returns success for a content,
\* freshly translated or served from the whole-document cache, the session
\* holds that content and its parsed document.
C25_SessionIsOfTranslatedContent ==
  BlockBasedSucceeded =>
    /\ session # <<>>
    /\ session[1].originalContent = pass.content
    /\ session[1].parsedDocument = parseMarkdownToBlocks(pass.content)

-----------------------------------------------------------------------------
(* The parser scenario, checked under SpecParse *)

\* a heading line, a blank line and a paragraph line, ended by a newline:
\* split at the newlines, the text has an empty fourth line
TitleText == <<"# A", "", "Hello", "">>

\* the same text without the final newline
TitleTextNoNewline == <<"# A", "", "Hello">>

\* block k (counted from 1) of the parsed document is of that type and content
BlockIs(k, type, content) ==
  /\ k <= Len(ret.document.blocks)
  /\ ret.document.blocks[k].index = k - 1
  /\ ret.document.blocks[k].type = type
  /\ ret.document.blocks[k].content = content

\* the three blocks of the scenario
TitleBlocks ==
  /\ BlockIs(1, "heading", <<"# A">>)
  /\ BlockIs(2, "blank_lines", <<"">>)
  /\ BlockIs(3, "paragraph", <<"Hello">>)

\* C26: the text of a heading line, a blank line and a paragraph line with
\* its final newline parses to four blocks with the indices 0-3: the
\* heading, blank_lines with empty content, the paragraph, and a second
\* blank_lines block with empty content for the empty line after the final
\* newline; without the final newline it parses to the first three.
C26_TitleScenario ==
  /\ (ret.op = "parse" /\ arg = TitleText) =>
       /\ Len(ret.document.blocks) = 4
       /\ TitleBlocks
       /\ BlockIs(4, "blank_lines", <<"">>)
  /\ (ret.op = "parse" /\ arg = TitleTextNoNewline) =>
       /\ Len(ret.document.blocks) = 3
       /\ TitleBlocks

\* the scenario text with its final newline has been parsed
C26_Witness ==
  /\ ret.op = "parse"
  /\ arg = TitleText
  /\ Len(ret.document.blocks) = 4
  /\ ret.document.blocks[4].startLine = 3

\* C26 as stated: the text with its final newline parses to exactly three
\* blocks, the final newline producing no further block
C26_TitleScenarioAsStated ==
  (ret.op = "parse" /\ arg = TitleText) =>
    /\ Len(ret.document.blocks) = 3
    /\ TitleBlocks

-----------------------------------------------------------------------------
(* HTML lines, checked under SpecParse *)

\* the line matches the HTML start-tag pattern and no rule before it
HtmlLine(line) == determineBlockType(line) = "html_block"

\* line i (0-based) of the parsed text is read in the normal state: no code
\* fence and no front matter is open there
ReadInNormalState(i) ==
  \A k \in 1..Len(ret.document.blocks) :
    (ret.document.blocks[k].startLine < i /\ i <= ret.document.blocks[k].endLine)
      => ret.document.blocks[k].type \notin {"code_block", "front_matter"}

\* C28: a line that matches the HTML start-tag pattern and none of the rules
\* before it (fence, heading, thematic break, blockquote, list, table), read
\* in the normal state, lies in a block whose kind is html_block.
C28_HtmlLineGivesHtmlBlock ==
  ret.op = "parse" =>
    \A i \in 0..(Len(arg) - 1) :
      (HtmlLine(arg[i + 1]) /\ ReadInNormalState(i)) =>
        \A k \in BlocksHoldingLine(ret.document, i) :
          ret.document.blocks[k].type = "html_block"

-----------------------------------------------------------------------------
(* The structure of a parsed document, checked under SpecParse *)

\* the code block was closed: its last line, not its first, is a fence of
\* the character and at least the length of its opening fence
FenceClosed(content) ==
  /\ Len(content) > 1
  /\ isCodeFenceEnd(content[Len(content)], FenceChar(content[1]), FenceLength(content[1]))

\* the front matter was closed: its last line, not its first, ends it
FrontMatterClosed(content) ==
  Len(content) > 1 /\ isFrontMatterEnd(content[Len(content)])

\* block k was opened as a code fence or as front matter and never closed
NeverClosed(k) ==
  \/ /\ ret.document.blocks[k].type = "code_block"
     /\ ~FenceClosed(ret.document.blocks[k].content)
  \/ /\ ret.document.blocks[k].type = "front_matter"
     /\ ~FrontMatterClosed(ret.document.blocks[k].content)

\* C29: for every text the parser returns at least one block; block number i
\* has index i; the line ranges of the blocks follow each other without gap
\* or overlap from line 0 to the last line; the content of a block is its
\* lines and its hash is the digest of its content; and a code fence or
\* front matter that is never closed is the last block and holds all the
\* remaining lines.
C29_ParserStructure ==
  ret.op = "parse" =>
    LET blocks == ret.document.blocks
        n == Len(blocks)
    IN /\ n >= 1
       /\ \A k \in 1..n :
            /\ blocks[k].index = k - 1
            /\ blocks[k].startLine <= blocks[k].endLine
            /\ blocks[k].content =
                 SubSeq(arg, blocks[k].startLine + 1, blocks[k].endLine + 1)
            /\ blocks[k].hash = generateHash(blocks[k].content)
            /\ NeverClosed(k) => (k = n /\ blocks[k].endLine = Len(arg) - 1)
       /\ blocks[1].startLine = 0
       /\ blocks[n].endLine = Len(arg) - 1
       /\ \A k \in 1..(n - 1) : blocks[k + 1].startLine = blocks[k].endLine + 1

\* a text whose second block is a code fence that is never closed and runs
\* over two more lines, one of which would be a heading outside the fence
C29_Witness ==
  /\ ret.op = "parse"
  /\ Len(ret.document.blocks) = 2
  /\ ret.document.blocks[2].type = "code_block"
  /\ NeverClosed(2)
  /\ Len(ret.document.blocks[2].content) = 3
  /\ \E j \in 2..3 : isHeading(ret.document.blocks[2].content[j])

-----------------------------------------------------------------------------
(* An edit of one block in place, checked under SpecDiff *)

\* the new document has as many blocks as the old one and differs from it
\* only in the content of block i (0-based), whose kind is the same
EditedInPlace(i) ==
  /\ Len(ret.newDocument.blocks) = Len(ret.oldDocument.blocks)
  /\ i < Len(ret.oldDocument.blocks)
  /\ ret.newDocument.blocks[i + 1].type = ret.oldDocument.blocks[i + 1].type
  /\ ret.newDocument.blocks[i + 1].content # ret.oldDocument.blocks[i + 1].content
  /\ \A j \in 0..(Len(ret.oldDocument.blocks) - 1) :
       j # i => /\ ret.newDocument.blocks[j + 1].type = ret.oldDocument.blocks[j + 1].type
                /\ ret.newDocument.blocks[j + 1].content = ret.oldDocument.blocks[j + 1].content

\* the diff is one modification of block i in place, every other block
\* unchanged at its index
OneModificationAt(i) ==
  /\ Len(ret.diff.changes) = 1
  /\ ret.diff.changes[1].type = "modified"
  /\ ret.diff.changes[1].oldIndex = i
  /\ ret.diff.changes[1].newIndex = i
  /\ {<<ret.diff.unchangedBlocks[k].oldIndex, ret.diff.unchangedBlocks[k].newIndex>> :
        k \in 1..Len(ret.diff.unchangedBlocks)}
       = {<<j, j>> : j \in (0..(Len(ret.oldDocument.blocks) - 1)) \ {i}}
  /\ Len(ret.diff.unchangedBlocks) = Len(ret.oldDocument.blocks) - 1

\* C27: when the new document differs from the old one only in the content
\* of the block at index i, the diff has exactly one change, Modified with
\* oldIndex = newIndex = i, and the unchanged pairs are (j, j) for every
\* other j, also when other blocks have the content of the old or of the new
\* version of block i.
C27_InPlaceEdit ==
  ret.op = "diff" =>
    \A i \in 0..(MaxDiffLines - 1) : EditedInPlace(i) => OneModificationAt(i)

-----------------------------------------------------------------------------
(* The fuzzy match of phase 2, checked under SpecDiff *)

\* the old indices of the unchanged pairs
unchangedOld == {ret.diff.unchangedBlocks[k].oldIndex : k \in 1..Len(ret.diff.unchangedBlocks)}

\* the old indices paired as Modified with a new block before new index n:
\* phase 2 takes the unmatched new blocks in index order
modifiedBefore(n) ==
  {ret.diff.changes[k].oldIndex :
     k \in {k2 \in 1..Len(ret.diff.changes) :
              /\ ret.diff.changes[k2].type = "modified"
              /\ ret.diff.changes[k2].newIndex < n}}

\* the old blocks of the kind of new block n (0-based) that are still
\* unmatched when phase 2 comes to it
stillUnmatched(n) ==
  {o \in 0..(Len(ret.oldDocument.blocks) - 1) :
     /\ o \notin unchangedOld
     /\ o \notin modifiedBefore(n)
     /\ ret.oldDocument.blocks[o + 1].type = ret.newDocument.blocks[n + 1].type}

\* C30: every Modified change pairs an old and a new block of the same kind
\* at an index distance of at most 3, the old block being the nearest of
\* the still unmatched old blocks of that kind (the lowest index on ties);
\* an unmatched new block without such an old block within distance 3 is
\* reported as Added.
C30_FuzzyMatchBound ==
  ret.op = "diff" =>
    \A k \in 1..Len(ret.diff.changes) :
      LET c == ret.diff.changes[k] IN
      /\ c.type = "modified" =>
           /\ ret.oldDocument.blocks[c.oldIndex + 1].type =
                ret.newDocument.blocks[c.newIndex + 1].type
           /\ abs(c.oldIndex - c.newIndex) <= FUZZY_MATCH_DISTANCE
           /\ c.oldIndex \in stillUnmatched(c.newIndex)
           /\ \A o \in stillUnmatched(c.newIndex) :
                \/ abs(o - c.newIndex) > abs(c.oldIndex - c.newIndex)
                \/ abs(o - c.newIndex) = abs(c.oldIndex - c.newIndex) /\ o >= c.oldIndex
      /\ c.type = "added" =>
           \A o \in stillUnmatched(c.newIndex) :
             abs(o - c.newIndex) > FUZZY_MATCH_DISTANCE

\* a diff with a new block that has an unmatched old block of its kind at
\* distance 4 and none nearer, reported as Added
C30_Witness ==
  /\ ret.op = "diff"
  /\ \E k \in 1..Len(ret.diff.changes) :
       /\ ret.diff.changes[k].type = "added"
       /\ \E o \in stillUnmatched(ret.diff.changes[k].newIndex) :
            abs(o - ret.diff.changes[k].newIndex) = FUZZY_MATCH_DISTANCE + 1

-----------------------------------------------------------------------------
(* The extension: the handlers of the panel's events, each running as a    *)
(* task of the event loop.  A task runs without interruption between two   *)
(* awaits; the passes of the tasks share the session and the caches.       *)
(* Requests do not fail here and getModel returns the requested model.     *)

\* most handler invocations that start in one behaviour
MaxEvents == 3

\* the texts the editor can hold when a handler reads it
EventDocs == {<<"# A", "# B">>, <<"# A", "# LongB">>}

\* the models of the model picker
EventModels == {"copilot", "gpt"}

\* hasTranslationSession(), s being the session when it is called
hasTranslationSession(s) == s # <<>>

\* A handler invocation: event (which handler), pc (saving: awaiting the
\* save of a setting; waiting: the 100 ms pause of onChunkSizeChange;
\* starting: awaiting the panel before the pass is called; running: awaiting
\* the pass; finished), branch (which pass function it calls), the values it
\* captured, token (its cancellation source was cancelled) and its pass.
newTask(event, pc, branch, content, targetLanguage, bypassCache) ==
  [event |-> event, pc |-> pc, branch |-> branch, content |-> content,
   targetLanguage |-> targetLanguage, bypassCache |-> bypassCache,
   modelId |-> IF currentState = <<>> THEN "copilot"
               ELSE currentState[1].selectedModelId,
   wasStreaming |-> FALSE, token |-> FALSE, pass |-> NoPass]

\* currentState as far as the handlers read it: targetLanguage,
\* selectedModelId (standing for the setting markdownTranslate.modelId, which
\* onModelChange saves with it) and partial (translatedUpTo < originalFull.length)
state(targetLanguage, selectedModelId, partial) ==
  <<[targetLanguage |-> targetLanguage, selectedModelId |-> selectedModelId,
     partial |-> partial]>>

\* a reload that takes the incremental path whenever a session exists
reloadTranslation_IgnoresBypass(event, s, newContent, targetLanguage, bypassCache) ==
  newTask(event, "starting",
          IF hasTranslationSession(s) THEN "incremental" ELSE "full",
          newContent, targetLanguage, FALSE)

\* reloadTranslation from its call to its first await, s being the session
\* at the call: the text of the editor is read and the kind of pass is chosen
reloadTranslation(event, s, newContent, targetLanguage, bypassCache) ==
  newTask(event, "starting",
          IF hasTranslationSession(s) /\ ~bypassCache THEN "incremental" ELSE "full",
          newContent, targetLanguage, bypassCache)

\* continueTranslation and translateAllRemaining from the call to the first await
continueTranslation(event, branch) ==
  newTask(event, "starting", branch, NoText, currentState[1].targetLanguage, FALSE)

\* a handler may be invoked: the panel shows a document
MayHandle == currentState # <<>> /\ Len(tasks) < MaxEvents

\* the handler is on the event loop
Launch(t) == tasks' = Append(tasks, t)

\* the handler has returned: of its pass the result stays on record
ended(t) ==
  [newTask(t.event, "finished", t.branch, NoText, "", t.bypassCache)
     EXCEPT !.modelId = "",
            !.pass = [NoPass EXCEPT !.kind = t.pass.kind, !.pc = "done",
                                    !.result = t.pass.result]]

\* the command markdownTranslate.translate, invoked on a document for the
\* first time: the panel is opened, the document and the settings are read
TranslateCommand ==
  /\ currentState = <<>>
  /\ tasks = <<>>
  /\ \E content \in EventDocs :
       Launch(newTask("translate", "starting", "full", content, "Japanese", FALSE))
  /\ UNCHANGED <<arg, ret, session, docCache, blockCache, now, enableCache, pass, currentState, currentCancellationSource, watchvars>>

\* onRequestTranslation and onUpdateTranslation
onUpdateTranslation ==
  /\ MayHandle
  /\ \E newContent \in EventDocs :
       Launch(reloadTranslation("update", session, newContent, currentState[1].targetLanguage, FALSE))
  /\ UNCHANGED <<arg, ret, session, docCache, blockCache, now, enableCache, pass, currentState, currentCancellationSource, watchvars>>

\* onRetranslate: the session is cleared and the document is reloaded
onRetranslate ==
  /\ MayHandle
  /\ session' = clearSession
  /\ \E newContent \in EventDocs :
       Launch(reloadTranslation("retranslate", clearSession, newContent, currentState[1].targetLanguage, TRUE))
  /\ UNCHANGED <<arg, ret, docCache, blockCache, now, enableCache, pass, currentState, currentCancellationSource, watchvars>>

\* onModelChange from the end of saveModelSetting: the setting is saved and
\* the state of the panel follows it
onModelChange ==
  /\ currentState # <<>>
  /\ \E modelId \in EventModels :
       /\ modelId # currentState[1].selectedModelId
       /\ currentState' = <<[currentState[1] EXCEPT !.selectedModelId = modelId]>>
  /\ UNCHANGED <<arg, ret, session, docCache, blockCache, now, enableCache, pass, currentCancellationSource, tasks, watchvars>>

\* onLanguageChange up to "await saveLanguageSetting"
onLanguageChange ==
  /\ MayHandle
  /\ \E language \in Languages :
       Launch(newTask("language", "saving", "full", NoText, language, TRUE))
  /\ UNCHANGED <<arg, ret, session, docCache, blockCache, now, enableCache, pass, currentState, currentCancellationSource, watchvars>>

\* onLanguageChange after the setting is saved: the language of the panel is
\* set, the session is cleared and the document is reloaded
LanguageSaved ==
  \E i \in DOMAIN tasks, newContent \in EventDocs :
    /\ tasks[i].event = "language"
    /\ tasks[i].pc = "saving"
    /\ currentState' = <<[currentState[1] EXCEPT !.targetLanguage = tasks[i].targetLanguage]>>
    /\ session' = clearSession
    /\ tasks' = [tasks EXCEPT ![i] =
                   reloadTranslation("language", clearSession, newContent, tasks[i].targetLanguage, TRUE)]
    /\ UNCHANGED <<arg, ret, docCache, blockCache, now, enableCache, pass, currentCancellationSource, watchvars>>

\* onContinueTranslation
onContinueTranslation ==
  /\ MayHandle
  /\ currentState[1].partial
  /\ Launch(continueTranslation("continue", "next"))
  /\ UNCHANGED <<arg, ret, session, docCache, blockCache, now, enableCache, pass, currentState, currentCancellationSource, watchvars>>

\* onTranslateAll
onTranslateAll ==
  /\ MayHandle
  /\ currentState[1].partial
  /\ Launch(continueTranslation("translateAll", "all"))
  /\ UNCHANGED <<arg, ret, session, docCache, blockCache, now, enableCache, pass, currentState, currentCancellationSource, watchvars>>

\* source.cancel() on the source of task i: its token reads as cancelled
cancel(ts, i) ==
  IF i = 0 THEN ts
  ELSE [ts EXCEPT ![i].token = TRUE,
                  ![i].pass.cancelled = ts[i].pass.pc \in {"getModel", "stream"}]

\* onChunkSizeChange up to "await saveChunkSizeSetting": a streaming pass is
\* cancelled
onChunkSizeChange ==
  /\ MayHandle
  /\ tasks' = Append(cancel(tasks, currentCancellationSource),
                     [newTask("chunkSize", "saving", "next", NoText, currentState[1].targetLanguage, FALSE)
                        EXCEPT !.wasStreaming = currentCancellationSource # 0])
  /\ UNCHANGED <<arg, ret, session, docCache, blockCache, now, enableCache, pass, currentState, currentCancellationSource, watchvars>>

\* onChunkSizeChange after the setting is saved: it pauses before it
\* continues with the new chunk size, or returns
ChunkSizeSaved ==
  \E i \in DOMAIN tasks :
    /\ tasks[i].event = "chunkSize"
    /\ tasks[i].pc = "saving"
    /\ tasks' = [tasks EXCEPT ![i] =
                   IF tasks[i].wasStreaming /\ hasTranslationSession(session)
                   THEN [tasks[i] EXCEPT !.pc = "waiting"] ELSE ended(tasks[i])]
    /\ UNCHANGED <<arg, ret, session, docCache, blockCache, now, enableCache, pass, currentState, currentCancellationSource, watchvars>>

\* onChunkSizeChange after the pause: continueTranslation is called
ChunkSizePaused ==
  \E i \in DOMAIN tasks :
    /\ tasks[i].pc = "waiting"
    /\ tasks' = [tasks EXCEPT ![i] = continueTranslation("chunkSize", "next")]
    /\ UNCHANGED <<arg, ret, session, docCache, blockCache, now, enableCache, pass, currentState, currentCancellationSource, watchvars>>

\* onDidSaveTextDocument with the auto-translate threshold reached: the
\* document is reloaded unless a cancellation source is set
onDidSaveTextDocument ==
  /\ MayHandle
  /\ currentCancellationSource = 0
  /\ \E newContent \in EventDocs :
       Launch(reloadTranslation("save", session, newContent, currentState[1].targetLanguage, FALSE))
  /\ UNCHANGED <<arg, ret, session, docCache, blockCache, now, enableCache, pass, currentState, currentCancellationSource, watchvars>>

\* what the pass functions of task i read and write
TaskMachine(i) ==
  [pass |-> tasks[i].pass, session |-> session, docCache |-> docCache,
   blockCache |-> blockCache]

\* The statements of a handler after its pass returned.  The handler reads
\* the token of currentCancellationSource, whichever task set it last, and
\* throws when it is undefined; a pass that ends without success keeps the
\* translated position of the panel, or estimates one short of the end.
finished(t, source, token) ==
  LET result == t.pass.result
      old == IF currentState = <<>> THEN state(t.targetLanguage, t.modelId, TRUE)
             ELSE currentState
      partial ==
        IF ~token /\ result.success THEN result.hasMoreBlocks
        ELSE IF t.branch = "full" THEN TRUE
        ELSE old[1].partial
  IN IF source = 0 THEN [state |-> currentState, source |-> 0]
     ELSE [state |-> IF t.branch \in {"full", "incremental"}
                     THEN state(t.targetLanguage, old[1].selectedModelId, partial)
                     ELSE state(old[1].targetLanguage, old[1].selectedModelId, partial),
           source |-> 0]

\* task i has run to its next await: m is what its pass made of the machine
TaskBecome(i, m, source) ==
  LET t == [tasks[i] EXCEPT !.pass = m.pass, !.pc = "running"]
      f == finished(t, source, IF source = 0 THEN FALSE ELSE
                               IF source = i THEN t.token ELSE tasks[source].token)
  IN /\ session' = m.session
     /\ docCache' = m.docCache
     /\ blockCache' = m.blockCache
     /\ IF m.pass.pc = "done"
        THEN /\ tasks' = [tasks EXCEPT ![i] = ended(t)]
             /\ currentState' = f.state
             /\ currentCancellationSource' = f.source
        ELSE /\ tasks' = [tasks EXCEPT ![i] = t]
             /\ currentState' = currentState
             /\ currentCancellationSource' = source
     /\ UNCHANGED <<arg, ret, now, enableCache, pass, watchvars>>

\* TranslationSession.updateModel: if (this.state) this.state.model = model
updateModel(s, model) ==
  IF s = <<>> THEN s ELSE <<[s[1] EXCEPT !.model = model]>>

\* The head of both continue passes when called with options.modelId: a
\* model other than the session's is fetched and put into the session.  The
\* await of getModel in it is not a step of its own.
switchModel(m, modelId) ==
  IF noContinuableSession(m.session) \/ modelId = m.session[1].model THEN m
  ELSE [m EXCEPT !.session = updateModel(m.session, modelId)]

\* the panel is ready: the handler sets a new cancellation source and calls
\* its pass function, which runs to its first await or returns
StartPass ==
  \E i \in DOMAIN tasks, chunkSize \in ChunkSizes :
    /\ tasks[i].pc = "starting"
    /\ LET t == tasks[i]
           m == TaskMachine(i)
       IN TaskBecome(i,
            CASE t.branch = "full" ->
                   startBlockBased(m, t.content, t.targetLanguage, chunkSize, t.bypassCache)
              [] t.branch = "incremental" ->
                   startIncremental(m, t.content, t.targetLanguage, "faithful")
              [] t.branch = "next" ->
                   startNextBlockChunk(switchModel(m, t.modelId), t.targetLanguage, chunkSize, "faithful")
              [] t.branch = "all" ->
                   startAllRemainingBlocks(switchModel(m, t.modelId), t.targetLanguage, "faithful"),
            i)

\* the running tasks
Running(i) == tasks[i].pc = "running"

\* getModel resolves in the pass of a task
TaskModelResolved ==
  \E i \in DOMAIN tasks :
    /\ Running(i)
    /\ tasks[i].pass.pc = "getModel"
    /\ TaskBecome(i, blockBasedPlan(TaskMachine(i), tasks[i].modelId, "faithful"), currentCancellationSource)

\* the next fragment of the response is delivered to the pass of a task
TaskReceiveFragment ==
  \E i \in DOMAIN tasks :
    /\ Running(i)
    /\ tasks[i].pass.pc = "stream"
    /\ tasks[i].pass.received < Len(tasks[i].pass.response)
    /\ LET m == TaskMachine(i) IN
       TaskBecome(i,
         CASE m.pass.kind = "initial" -> blockBasedFragment(m)
           [] m.pass.kind \in {"next", "all"} -> continueFragment(m)
           [] m.pass.kind = "incremental" -> singleBlockFragment(m, "faithful"),
         currentCancellationSource)

\* the response to the pass of a task ends
TaskStreamEnd ==
  \E i \in DOMAIN tasks :
    /\ Running(i)
    /\ tasks[i].pass.pc = "stream"
    /\ tasks[i].pass.received = Len(tasks[i].pass.response)
    /\ LET m == TaskMachine(i) IN
       TaskBecome(i,
         CASE m.pass.kind = "initial" -> blockBasedStreamEnd(m, "faithful")
           [] m.pass.kind \in {"next", "all"} -> continueStreamEnd(m, "faithful")
           [] m.pass.kind = "incremental" -> singleBlockStreamEnd(m, "faithful"),
         currentCancellationSource)

\* the cache is enabled, the target language setting is Japanese
EventsInit ==
  /\ arg = NoText
  /\ ret = NoResult
  /\ SysInit
  /\ enableCache

EventsNext ==
  \/ TranslateCommand
  \/ onUpdateTranslation
  \/ onRetranslate
  \/ onModelChange
  \/ onLanguageChange
  \/ LanguageSaved
  \/ onContinueTranslation
  \/ onTranslateAll
  \/ onChunkSizeChange
  \/ ChunkSizeSaved
  \/ ChunkSizePaused
  \/ onDidSaveTextDocument
  \/ StartPass
  \/ TaskModelResolved
  \/ TaskReceiveFragment
  \/ TaskStreamEnd

SpecEvents == EventsInit /\ [][EventsNext]_vars

-----------------------------------------------------------------------------
(* A fresh start, checked under SpecEvents *)

\* task i was started by a retranslate or a language-change event
FreshStart(ts, i) == ts[i].event \in {"retranslate", "language"}

\* task i of ts has called reloadTranslation and awaits the panel
Reloading(ts, i) == i \in DOMAIN ts /\ ts[i].pc = "starting"

\* the pass of task i returns success in this step
Succeeds(i) ==
  /\ tasks[i].pc \in {"starting", "running"}
  /\ tasks'[i].pc = "finished"
  /\ tasks'[i].pass.result.success

\* C22: a retranslate event and a language-change event clear the session in
\* the step in which they call reloadTranslation, with the cache bypassed;
\* the pass they start is translateContentBlockBased, it never returns from
\* the whole-document cache, and when it succeeds the session is a new one,
\* of the text that pass translated.
C22_FreshStartIsFullPass ==
  [][\A i \in DOMAIN tasks' :
       FreshStart(tasks', i) =>
         /\ (Reloading(tasks', i) /\ ~Reloading(tasks, i)) =>
              /\ session' = <<>>
              /\ tasks'[i].bypassCache
              /\ tasks'[i].branch = "full"
         /\ tasks'[i].pc \in {"running", "finished"} =>
              /\ tasks'[i].pass.kind = "initial"
              /\ ~tasks'[i].pass.result.fromCache
         /\ (i \in DOMAIN tasks /\ Succeeds(i)) =>
              /\ session' # <<>>
              /\ session'[1].originalContent = tasks[i].content
              /\ session'[1].parsedDocument = parseMarkdownToBlocks(tasks[i].content)
              /\ session'[1].translatedContent = tasks'[i].pass.result.translation]_vars

\* the document was translated, then translated afresh with success, and the
\* session is there
C22_Witness ==
  /\ Len(tasks) >= 2
  /\ tasks[1].pc = "finished"
  /\ tasks[1].pass.result.success
  /\ \E i \in DOMAIN tasks :
       /\ FreshStart(tasks, i)
       /\ tasks[i].pc = "finished"
       /\ tasks[i].pass.result.success
       /\ docCache # EmptyMap
  /\ session # <<>>

-----------------------------------------------------------------------------
(* A change of the model, checked under SpecEvents *)

\* the model of the panel changes in this step
ModelChanges ==
  /\ currentState # <<>>
  /\ currentState' # <<>>
  /\ currentState'[1].selectedModelId # currentState[1].selectedModelId

\* C23: when the model changes the session is cleared: after the
\* model-change event no session is live.
C23_ModelChangeClearsSession ==
  [][ModelChanges => session' = <<>>]_vars

-----------------------------------------------------------------------------
(* Passes in flight, checked under SpecEvents *)

\* the tasks whose pass was called and has not returned
InFlight == {i \in DOMAIN tasks : Running(i)}

\* C24: at most one pass is in flight at any time.
C24_OnePassInFlight == Cardinality(InFlight) <= 1

-----------------------------------------------------------------------------
(* The internal ceiling, checked under SpecPlan *)

\* the characters of internal chunk c of the plan, its blocks joined by newlines
chunkLength(c) == textLength(blocksToContent(ret.internalChunks[c]))

\* C31: every internal chunk of a plan has joined content of at most
\* INTERNAL_MAX_CHUNK_SIZE characters.
C31_InternalCeiling ==
  ret.op = "select" =>
    \A c \in 1..Len(ret.internalChunks) : chunkLength(c) <= INTERNAL_MAX_CHUNK_SIZE

-----------------------------------------------------------------------------
(* What the whole-document cache is given, checked under Spec *)

\* translationCache.set writes or rewrites the entry of key k in this step
DocumentCached(k) ==
  /\ k \in DOMAIN docCache'
  /\ k \notin DOMAIN docCache \/ docCache'[k] # docCache[k]

\* every block of the text has a translation in the map
AllTranslated(content, translations) ==
  \A k \in 1..Len(parseMarkdownToBlocks(content).blocks) :
    hasEntry(translations, parseMarkdownToBlocks(content).blocks[k].hash)

\* C32: the whole-document cache is written for a content only by a pass that
\* ends with the session of that content, with no block left beyond the
\* translated boundary and with a translation for every block of the content.
C32_CachedDocumentIsComplete ==
  [][\A k \in DOMAIN docCache' :
       DocumentCached(k) =>
         /\ pass'.pc = "done"
         /\ pass'.result.success
         /\ ~pass'.result.hasMoreBlocks
         /\ session' # <<>>
         /\ session'[1].originalContent = k.sha256
         /\ AllTranslated(k.sha256, session'[1].blockTranslations)]_vars

-----------------------------------------------------------------------------
(* The model of a request, checked under SpecEvents *)

\* task i awaits the response of a request or its next fragment
Requesting(i) == Running(i) /\ tasks[i].pass.pc = "stream"

\* C33: the requests of a pass go to the model that was selected when the
\* handler of the pass was invoked, whatever model the session held before.
C33_RequestsGoToSelectedModel ==
  \A i \in DOMAIN tasks :
    Requesting(i) => tasks[i].pass.model = tasks[i].modelId

-----------------------------------------------------------------------------
(* Cancelled before anything was received, checked under Spec *)

\* the initial pass is cancelled and has received no text of any response
NothingReceived ==
  /\ pass.kind = "initial"
  /\ pass.cancelled
  /\ pass.completed = 0
  /\ pass.pc = "getModel" \/ (pass.pc = "stream" /\ pass.received = 0)

\* the pass returns in this step because it read the token as cancelled
ReturnsCancelled ==
  /\ pass'.pc = "done"
  /\ pass'.result.error = "cancelled"

\* C34: when the initial pass observes the cancellation before it received
\* any translated text, the session it saves has no translated-up-to index
\* and an empty block-translation map, so a continue pass starts at block 0.
C34_CancelledBeforeAnyText ==
  [][(NothingReceived /\ ReturnsCancelled) =>
       /\ session' # <<>>
       /\ session'[1].translatedUpToBlockIndex = NoIndex
       /\ session'[1].blockTranslations = EmptyMap
       /\ continueStartIndex(session'[1].translatedUpToBlockIndex) = 0]_vars

-----------------------------------------------------------------------------
(* Blocks appended to a fully translated document, checked under SpecDiff *)

\* the new document is the old one with blocks appended at its end
OnlyAppended ==
  /\ ret.op = "diff"
  /\ ret.diff # NullDiff
  /\ Len(ret.newDocument.blocks) > Len(ret.oldDocument.blocks)
  /\ \A k \in 1..Len(ret.oldDocument.blocks) :
       ret.newDocument.blocks[k].hash = ret.oldDocument.blocks[k].hash

\* the translations of a session that has translated every old block
translatedOld ==
  [h \in {ret.oldDocument.blocks[k].hash : k \in 1..Len(ret.oldDocument.blocks)} |-> <<"translated">>]

\* the boundary the update computes when every old block was translated
boundaryOfFull == ret.remapped[Len(ret.oldDocument.blocks) - 1]

\* the indices of the blocks the update sends for translation
sentForTranslation ==
  LET todo == blocksToTranslate(ret.diff, boundaryOfFull, translatedOld)
  IN {todo[k].index : k \in 1..Len(todo)}

\* C35: when every old block was translated and the edit only appends
\* blocks, the update puts the boundary at the new last block (so that
\* hasMoreBlocks is false) and translates every appended block that has no
\* translation yet.
C35_AppendedBlocksAreTranslated ==
  OnlyAppended =>
    /\ boundaryOfFull = Len(ret.newDocument.blocks) - 1
    /\ \A k \in (Len(ret.oldDocument.blocks) + 1)..Len(ret.newDocument.blocks) :
         \/ hasEntry(translatedOld, ret.newDocument.blocks[k].hash)
         \/ (k - 1) \in sentForTranslation

-----------------------------------------------------------------------------
(* Fingerprints in a diff, checked under SpecDiff *)

\* the changes of the diff of the given type
changesOf(type) ==
  {k \in 1..Len(ret.diff.changes) : ret.diff.changes[k].type = type}

\* the old indices that phase 1 paired with a new block
pairedOld ==
  {ret.diff.unchangedBlocks[k].oldIndex : k \in 1..Len(ret.diff.unchangedBlocks)}

\* the new indices that phase 1 paired with an old block
pairedNew ==
  {ret.diff.unchangedBlocks[k].newIndex : k \in 1..Len(ret.diff.unchangedBlocks)}

\* C36: in every diff a modified change pairs blocks of different
\* fingerprints, no fingerprint is on a removed and on an added block, and a
\* new block is left unpaired by phase 1 only if no old block of its
\* fingerprint is left unpaired.
C36_FingerprintsInDiff ==
  (ret.op = "diff" /\ ret.diff # NullDiff) =>
    /\ \A k \in changesOf("modified") :
         ret.diff.changes[k].oldBlock.hash # ret.diff.changes[k].newBlock.hash
    /\ \A r \in changesOf("removed"), a \in changesOf("added") :
         ret.diff.changes[r].oldBlock.hash # ret.diff.changes[a].newBlock.hash
    /\ \A n \in 1..Len(ret.newDocument.blocks), o \in 1..Len(ret.oldDocument.blocks) :
         (ret.newDocument.blocks[n].hash = ret.oldDocument.blocks[o].hash) =>
           ((n - 1) \in pairedNew \/ (o - 1) \in pairedOld)

\* a diff with a modified, a removed and an added change, of documents in
\* which a fingerprint occurs more often in the old one than in the new one
C36_Witness ==
  /\ ret.op = "diff"
  /\ ret.diff # NullDiff
  /\ changesOf("modified") # {}
  /\ changesOf("removed") # {}
  /\ changesOf("added") # {}
  /\ \E r \in changesOf("removed"), u \in 1..Len(ret.diff.unchangedBlocks) :
       ret.diff.changes[r].oldBlock.hash = ret.diff.unchangedBlocks[u].block.hash

-----------------------------------------------------------------------------
(* The language of a cached document, checked under Spec *)

\* the pass that has just returned translated the whole of its content and
\* wrote it to the whole-document cache
WroteDocument ==
  /\ pass.kind = "initial"
  /\ pass.pc = "done"
  /\ pass.result.success
  /\ ~pass.result.fromCache
  /\ ~pass.result.hasMoreBlocks
  /\ enableCache
  /\ hasEntry(docCache, generateHash(pass.content))
  /\ docCache[generateHash(pass.content)].translation = pass.result.translation

\* this step calls translateContentBlockBased for the content of the pass
\* before it, and the call returns the entry of the whole-document cache
ServedFromCache ==
  /\ pass'.number = pass.number + 1
  /\ pass'.kind = "initial"
  /\ pass'.pc = "done"
  /\ pass'.content = pass.content
  /\ pass'.result.success
  /\ pass'.result.fromCache
  /\ pass'.result.translation = docCache[generateHash(pass.content)].translation

\* C37: when translateContentBlockBased is served from the whole-document
\* cache for a target language, the text it returns was generated for that
\* target language; here for the entry that the pass before it has written.
C37_CachedTextIsForLanguage ==
  [][(WroteDocument /\ ServedFromCache) =>
        pass'.targetLanguage = pass.targetLanguage]_vars

-----------------------------------------------------------------------------
(* The cancellation source of a running pass, checked under SpecEvents *)

\* C38: while the pass of a task is in flight, currentCancellationSource is
\* defined and is the source that the task created for that pass.
C38_RunningPassOwnsTheSource ==
  \A i \in DOMAIN tasks :
    Running(i) => currentCancellationSource = i

-----------------------------------------------------------------------------
(* The document watchers of extension.ts: one document is edited and saved *)
(* while the panel shows its translation.                                   *)

\* the texts the document is edited to
WatchDocs == EventDocs \cup {<<"# LongA", "# LongB">>}

\* the values of the autoTranslateThreshold setting (0: disabled)
Thresholds == {0, 1, 2}

\* translationSession.getTranslatedUpToBlockIndex() on the state s
getTranslatedUpToBlockIndex(s) ==
  IF s = <<>> THEN NoIndex ELSE s[1].translatedUpToBlockIndex

\* the filter of the change watcher: a change is counted unless its block
\* is blank lines, nothing was translated, or it is beyond the translated
\* range
countsAsChanged(change, translatedUpToBlockIndex) ==
  LET blockType == IF change.newBlock # NoBlock THEN change.newBlock.type
                   ELSE change.oldBlock.type
  IN /\ blockType # "blank_lines"
     /\ translatedUpToBlockIndex # NoIndex
     /\ IF change.type \in {"modified", "removed"}
        THEN change.oldIndex # NoIndex /\ change.oldIndex <= translatedUpToBlockIndex
        ELSE change.newIndex # NoIndex /\ change.newIndex <= translatedUpToBlockIndex

\* changedBlockCount of the change watcher: blockDiff is NullDiff for null
changedBlockCount(blockDiff, translatedUpToBlockIndex) ==
  Cardinality({k \in 1..Len(blockDiff.changes) :
                 countsAsChanged(blockDiff.changes[k], translatedUpToBlockIndex)})

\* the command markdownTranslate.translate on the document of the editor
TranslateDocument ==
  /\ currentState = <<>>
  /\ tasks = <<>>
  /\ Launch(newTask("translate", "starting", "full", documentText, "Japanese", FALSE))
  /\ UNCHANGED <<arg, ret, session, docCache, blockCache, now, enableCache, pass, currentState, currentCancellationSource, watchvars>>

\* documentWatcher, the onDidChangeTextDocument listener: the document is
\* edited to currentContent, and with a panel state the changed blocks are
\* counted against the session
documentWatcher ==
  /\ \E currentContent \in WatchDocs \ {documentText} :
       /\ documentText' = currentContent
       /\ IF currentState # <<>>
          THEN LET d == detectBlockChanges(session, currentContent) IN
               /\ session' = d.session
               /\ lastChangedBlockCount' =
                    changedBlockCount(d.diff, getTranslatedUpToBlockIndex(session))
          ELSE UNCHANGED <<session, lastChangedBlockCount>>
  /\ UNCHANGED <<arg, ret, docCache, blockCache, now, enableCache, pass, currentState, currentCancellationSource, tasks, autoTranslateThreshold>>

\* documentSaveWatcher, the onDidSaveTextDocument listener, when its test
\* passes: reloadTranslation is called (currentPanel is set with
\* currentState)
documentSaveWatcher ==
  /\ MayHandle
  /\ autoTranslateThreshold > 0
  /\ lastChangedBlockCount >= autoTranslateThreshold
  /\ currentCancellationSource = 0
  /\ Launch(reloadTranslation("save", session, documentText, currentState[1].targetLanguage, FALSE))
  /\ UNCHANGED <<arg, ret, session, docCache, blockCache, now, enableCache, pass, currentState, currentCancellationSource, watchvars>>

\* a document is open, the cache is enabled, nothing was counted yet
WatchInit ==
  /\ arg = NoText
  /\ ret = NoResult
  /\ session = <<>>
  /\ docCache = EmptyMap
  /\ blockCache = EmptyMap
  /\ now = 0
  /\ enableCache = TRUE
  /\ pass = NoPass
  /\ currentState = <<>>
  /\ currentCancellationSource = 0
  /\ tasks = <<>>
  /\ documentText \in WatchDocs
  /\ autoTranslateThreshold \in Thresholds
  /\ lastChangedBlockCount = 0

WatchNext ==
  \/ TranslateDocument
  \/ documentWatcher
  \/ documentSaveWatcher
  \/ StartPass
  \/ TaskModelResolved
  \/ TaskReceiveFragment
  \/ TaskStreamEnd

SpecWatch == WatchInit /\ [][WatchNext]_vars

-----------------------------------------------------------------------------
(* Auto-translate on save, checked under SpecWatch *)

\* this step is the save watcher calling reloadTranslation
SaveStartsPass ==
  /\ Len(tasks') = Len(tasks) + 1
  /\ tasks'[Len(tasks')].event = "save"

\* the blocks inside the translated range that differ between the document
\* and the text the session last translated
changedSinceTranslation ==
  changedBlockCount(detectBlockChanges(session, documentText).diff,
                    getTranslatedUpToBlockIndex(session))

\* C39: a save starts a pass only when the threshold is positive, at least
\* that many blocks inside the translated range differ from the last
\* translation, and no pass is in flight; so a save of the text that was
\* just translated starts none.
C39_SaveStartsPassOnlyAfterChanges ==
  [][SaveStartsPass =>
       /\ autoTranslateThreshold > 0
       /\ changedSinceTranslation >= autoTranslateThreshold
       /\ InFlight = {}]_vars

-----------------------------------------------------------------------------
(* A continue pass or an update that does not succeed, checked under Spec *)

\* the pass is a continue pass or an incremental update
ContinuesOrUpdates(p) == p.kind \in {"next", "all", "incremental"}

\* this step is the return of a pass without success
ReturnsFailure ==
  /\ pass'.pc = "done"
  /\ pass.pc # "done" \/ pass'.number # pass.number
  /\ ~pass'.result.success

\* the session s holds the document, the map, the translation and the
\* boundary of the session s0
SameTranslationState(s, s0) ==
  IF s0 = <<>> \/ s = <<>> THEN s = s0
  ELSE /\ s[1].parsedDocument = s0[1].parsedDocument
       /\ s[1].blockTranslations = s0[1].blockTranslations
       /\ s[1].translatedContent = s0[1].translatedContent
       /\ s[1].translatedUpToBlockIndex = s0[1].translatedUpToBlockIndex

=============================================================================
